---------------------------- MODULE Spec2Model ----------------------------
(***************************************************************************)
(* Hybrid retrieval and reranking engine of sehor/micro-services.          *)
(*                                                                         *)
(*   llm-service/app/routers/rerank.py   _cosine_sim, _mmr_rank,           *)
(*                                        _extract_json_array, rerank      *)
(*   rag-service/app/routers/search.py   search (fan-out, merge)           *)
(*                                                                         *)
(*   llm-service/app/routers/gateway.py  gateway_reranker                  *)
(*                                                                         *)
(* Each component has its own specification (SpecMmr, SpecSearch,          *)
(* SpecRerank, SpecRerankRequest, SpecGateway); the variables of the       *)
(* components a specification does not run stay at their idle values.      *)
(*                                                                         *)
(* Numbers.  Python floats are modelled by exact fixed-point integers:     *)
(* cosines in CosUnit-ths, MMR scores in (LamUnit*CosUnit)-ths, search     *)
(* scores in ScoreUnit-ths.  The input domains are chosen so that every    *)
(* division and square root of the code is exact in these units.           *)
(***************************************************************************)
EXTENDS Integers, Sequences, FiniteSets, TLC

VARIABLES
    \* ---- _mmr_rank (rerank.py) ----
    m_pc,        \* "idle" | "call" | "loop" | "returned" | "raised"
    query_vec,   \* argument query_vec
    doc_vecs,    \* argument doc_vecs
    docs_len,    \* len(docs)
    k_in,        \* argument k as passed
    lam,         \* argument lam, in LamUnit-ths
    k,           \* local k after the clamp
    rel,         \* local rel (1-based here, index i of the code is i+1)
    selected,    \* local selected: sequence of 0-based indexes
    remaining,   \* local remaining: set of 0-based indexes
    results,     \* local results: sequence of [index, score]
    \* ---- search (search.py) ----
    s_pc,        \* position of the handler, see SearchPcs
    db_docs,     \* the documents table: id -> [kw, dist]
    top_k,       \* payload.top_k
    kw_task,     \* res_kw_task:  [st, rows]
    vec_task,    \* res_vec_task: [st, rows]
    done_order,  \* history: the order in which the two tasks finished
    res_kw,      \* rows bound to res_kw by the gather
    res_vec,     \* rows bound to res_vec by the gather
    kw_items,    \* local kw_items
    vec_items,   \* local vec_items
    merged,      \* local merged: dict in insertion order, as a sequence of items
    merge_i,     \* how many items of kw_items + vec_items the merge loop has taken
    items,       \* local items
    reranked_items, \* local reranked_items
    answer,      \* local answer
    client_open, \* whether the LLMsGatewayClient of this request is open
    response,    \* what the caller gets: "none" | "ok" | "http500"
    s_log,       \* history: the calls and awaits of the handler, in order
    rerank_reply, \* history: "none" | "list" | "missing" | "error"
    \* ---- rerank and _extract_json_array (rerank.py) ----
    r_pc,        \* position of the handler, see RerankPcs
    req,         \* the RerankRequest: [query, documents, provider, top_n]
    r_calls,     \* history: the collaborator calls issued, in order
    emb_reply,   \* history: what the embeddings upstream replied, "none" before
    content,     \* local content: the model's reply text, a sequence of tokens
    extracted,   \* outcome of _extract_json_array(content): [ok, val]
    r_status,    \* HTTP status of the rerank response, 0 while none
    r_results,   \* results of the RerankResponse: sequence of indexes
    \* ---- gateway_reranker (gateway.py) ----
    g_pc,        \* "idle" | "start" | "reranking" | "mapping" | "responded"
    payload,     \* the request body: [query, items]
    g_rerank,    \* history: "none" | "returned" | "raised", the call of _rerank
    resp_results, \* resp.results: sequence of [index, score]
    g_i,         \* how many results the mapping loop has taken
    ordered,     \* local ordered
    g_status,    \* HTTP status of the gateway response, 0 while none
    \* ---- the two cosine functions (rerank.py, search.py) ----
    c_pc,        \* "idle" | "ready"
    c_a,         \* argument a
    c_b,         \* argument b
    c_called,    \* which of the two functions have been called on (a, b)
    c_sim,       \* outcome of _cosine_sim(a, b): [raised, val]
    c_similarity, \* outcome of _cosine_similarity(a, b): [raised, val]
    \* ---- AuthService.verify_token (auth-service services/auth.py) ----
    a_pc,        \* "idle" | "call" | "picked" | "returned"
    request_token, \* request.token, NoToken when absent
    authorization, \* the Authorization header: NoHeader or <<first 7 chars, rest>>
    token,       \* local token
    a_result,    \* outcome of the call: [raised, code, valid, user_id]
    \* ---- the rate limiters (auth-service middleware/rate_limit.py) ----
    rl_pc,       \* "idle" | "serving"
    now,         \* int(time.time())
    redis_client, \* the module global _redis_client: "None" | "client"
    zsets,       \* per limiter, the sorted set of its key: the members, each its own score
    ttl,         \* per limiter, the second its key expires at, NoTtl if the key is absent
    rl_served,   \* requests handled in the current second
    passed_at,   \* history: per second, requests RateLimitMiddleware passed to call_next
    rl_failed,   \* history: some Redis operation has failed
    rl_last,     \* history: the last request, [mw, failure, status]
    \* ---- todo-service (service.py) ----
    t_pc,        \* "idle" | "serving"
    todos,       \* table todos: id -> attribute_id (Null when NULL)
    todo_attributes, \* table todo_attributes: id -> mergency
    t_last       \* history: the last call, [op, todo_id, status, todos, todo_attributes]

mmrVars == <<m_pc, query_vec, doc_vecs, docs_len, k_in, lam, k, rel,
             selected, remaining, results>>

searchHist == <<s_log, rerank_reply>>
searchVars == <<s_pc, db_docs, top_k, kw_task, vec_task, done_order, res_kw,
                res_vec, kw_items, vec_items, merged, merge_i, items,
                reranked_items, answer, client_open, response, searchHist>>

requestVars == <<req, r_calls, emb_reply>>
rerankVars == <<r_pc, requestVars, content, extracted, r_status, r_results>>

gatewayVars == <<g_pc, payload, g_rerank, resp_results, g_i, ordered, g_status>>

cosineVars == <<c_pc, c_a, c_b, c_called, c_sim, c_similarity>>

authVars == <<a_pc, request_token, authorization, token, a_result>>

rateLimitVars == <<rl_pc, now, redis_client, zsets, ttl, rl_served, passed_at, rl_failed, rl_last>>

todoVars == <<t_pc, todos, todo_attributes, t_last>>

vars == <<mmrVars, searchVars, rerankVars, gatewayVars, cosineVars, authVars,
    rateLimitVars, todoVars>>

\* the variables of the other components, which a component's actions leave alone
otherThanMmr == <<searchVars, rerankVars, gatewayVars, cosineVars, authVars,
    rateLimitVars, todoVars>>
otherThanSearch == <<mmrVars, rerankVars, gatewayVars, cosineVars, authVars,
    rateLimitVars, todoVars>>
otherThanRerank == <<mmrVars, searchVars, gatewayVars, cosineVars, authVars,
    rateLimitVars, todoVars>>
otherThanGateway == <<mmrVars, searchVars, rerankVars, cosineVars, authVars,
    rateLimitVars, todoVars>>
otherThanCosine == <<mmrVars, searchVars, rerankVars, gatewayVars, authVars,
    rateLimitVars, todoVars>>
otherThanAuth == <<mmrVars, searchVars, rerankVars, gatewayVars, cosineVars,
    rateLimitVars, todoVars>>
otherThanRateLimit == <<mmrVars, searchVars, rerankVars, gatewayVars,
    cosineVars, authVars, todoVars>>
otherThanTodo == <<mmrVars, searchVars, rerankVars, gatewayVars, cosineVars,
    authVars, rateLimitVars>>
\* the rerank handler calling _mmr_rank writes the state of both
otherThanRerankAndMmr == <<searchVars, gatewayVars, cosineVars, authVars,
    rateLimitVars, todoVars>>

(***************************************************************************)
(* Generic helpers                                                         *)
(***************************************************************************)
Range(s) == {s[i] : i \in 1..Len(s)}

\* All sequences over S of length 0..n
SeqsUpTo(S, n) == UNION {[1..m -> S] : m \in 0..n}

RECURSIVE SumSeq(_)
SumSeq(s) == IF s = <<>> THEN 0 ELSE Head(s) + SumSeq(Tail(s))

MaxOf(S) == CHOOSE x \in S : \A y \in S : y <= x

\* math.sqrt on the model's domain (sums of squares that are perfect squares)
Sqrt(x) == CHOOSE r \in 0..x : r * r <= x /\ (r + 1) * (r + 1) > x

(***************************************************************************)
(* Bounds and input domains                                                *)
(***************************************************************************)
MaxDocs == 3
\* number of rows of the documents table
MaxIds == 3
\* number of blocks a reply text is made of
MaxBlocks == 4

\* cosines are held in 25ths: every non-zero vector of Vecs has norm 5
CosUnit == 5 * 5
\* lam is held in tenths (0.7 = 7/10)
LamUnit == 2 * 5

Vecs == {<<0, 0>>, <<5, 0>>, <<4, 3>>, <<3, -4>>, <<-5, 0>>, <<5>>}
QueryVecs == {<<5, 0>>, <<4, 3>>, <<0, 0>>}
Lams == {7, 10}
Ks == (-1)..(MaxDocs + 1)

(***************************************************************************)
(* rerank.py: _cosine_sim                                                  *)
(***************************************************************************)
Dot(a, b) == SumSeq([i \in 1..Len(a) |-> a[i] * b[i]])

cosine_sim(a, b) ==
    IF a = <<>> \/ b = <<>> THEN 0
    ELSE IF Len(a) # Len(b) THEN 0
    ELSE LET dot == Dot(a, b)
             na == Dot(a, a)
             nb == Dot(b, b)
         IN IF na = 0 \/ nb = 0 THEN 0
            ELSE (dot * CosUnit) \div (Sqrt(na) * Sqrt(nb))

(***************************************************************************)
(* rerank.py: _mmr_rank                                                    *)
(***************************************************************************)
\* line 67: best_score = -1e9.  Scores lie in -(LamUnit*CosUnit)..(LamUnit*CosUnit);
\* the sentinel is kept at -10^9 of these units (below every score, as in the code).
InitialBestScore == -1000000000

\* Mutant of RelOf: relevance measured against the first document, not the query
RelOf_FirstDoc(qv, dvs) == [i \in 1..Len(dvs) |-> cosine_sim(dvs[1], dvs[i])]

\* line 59
RelOf(qv, dvs) == [i \in 1..Len(dvs) |-> cosine_sim(qv, dvs[i])]

\* lines 70-73: max similarity of candidate i to the selected ones
MaxSimToSelected(dvs, i, sel) ==
    IF sel # <<>>
    THEN MaxOf({cosine_sim(dvs[i + 1], dvs[sel[j] + 1]) : j \in 1..Len(sel)})
    ELSE 0

\* Mutant of MmrScore: the diversity term is added instead of subtracted
MmrScore_PenaltyAdded(dvs, rl, l, i, sel) ==
    l * rl[i + 1] + (LamUnit - l) * MaxSimToSelected(dvs, i, sel)

\* line 74: score = lam * rel[i] - (1.0 - lam) * max_sim_to_selected
MmrScore(dvs, rl, l, i, sel) ==
    l * rl[i + 1] - (LamUnit - l) * MaxSimToSelected(dvs, i, sel)

\* Mutant of Better: a later candidate with an equal score replaces the best
Better_OrEqual(score, best_score) == score >= best_score

\* line 75: the comparison that replaces the running best
Better(score, best_score) == score > best_score

\* lines 66-77: the inner loop over list(remaining), listed in the order ord
RECURSIVE ScanRemaining(_, _, _, _, _, _)
ScanRemaining(ord, dvs, rl, l, sel, best) ==
    IF ord = <<>> THEN best
    ELSE LET i == Head(ord)
             score == MmrScore(dvs, rl, l, i, sel)
             nb == IF Better(score, best.score)
                   THEN [none |-> FALSE, idx |-> i, score |-> score]
                   ELSE best
         IN ScanRemaining(Tail(ord), dvs, rl, l, sel, nb)

\* lines 66-67: best_idx = None (none = TRUE), best_score = -1e9
NoBest == [none |-> TRUE, idx |-> 0, score |-> InitialBestScore]

\* line 68: list(remaining).  remaining is built as set(range(n)) and only
\* shrinks (discard).  hash(i) = i for these integers and the set's table
\* always has more than n slots, so element i sits in slot i and the set is
\* listed in slot order, i.e. in ascending order of i; a discard leaves the
\* other slots in place.
RECURSIVE ListOfSet(_)
ListOfSet(S) ==
    IF S = {} THEN <<>>
    ELSE LET m == CHOOSE x \in S : \A y \in S : x <= y
         IN <<m>> \o ListOfSet(S \ {m})

\* Mutant of Discard: the selected index stays in remaining
Discard_Forgotten(S, i) == S

\* line 81: remaining.discard(best_idx)
Discard(S, i) == S \ {i}

MmrIdle ==
    /\ m_pc = "idle"
    /\ query_vec = <<>>
    /\ doc_vecs = <<>>
    /\ docs_len = 0
    /\ k_in = 0
    /\ lam = 0
    /\ k = 0
    /\ rel = <<>>
    /\ selected = <<>>
    /\ remaining = {}
    /\ results = <<>>

\* A call _mmr_rank(query_vec, doc_vecs, docs, k, lam)
MmrInit ==
    /\ m_pc = "call"
    /\ query_vec \in QueryVecs
    /\ doc_vecs \in SeqsUpTo(Vecs, MaxDocs)
    /\ docs_len \in {Len(doc_vecs), Len(doc_vecs) + 1}
    /\ k_in \in Ks
    /\ lam \in Lams
    /\ k = k_in
    /\ rel = <<>>
    /\ selected = <<>>
    /\ remaining = {}
    /\ results = <<>>

\* lines 51-53: n != len(docs) raises ValueError
MmrRaise ==
    /\ m_pc = "call"
    /\ Len(doc_vecs) # docs_len
    /\ m_pc' = "raised"
    /\ UNCHANGED <<query_vec, doc_vecs, docs_len, k_in, lam, k, rel,
                   selected, remaining, results>>
    /\ UNCHANGED otherThanMmr

\* lines 54-55: k <= 0 returns []
MmrReturnEmpty ==
    /\ m_pc = "call"
    /\ Len(doc_vecs) = docs_len
    /\ k_in <= 0
    /\ m_pc' = "returned"
    /\ UNCHANGED <<query_vec, doc_vecs, docs_len, k_in, lam, k, rel,
                   selected, remaining, results>>
    /\ UNCHANGED otherThanMmr

\* lines 56-63: clamp k, precompute rel, initialise the loop state
MmrEnter ==
    /\ m_pc = "call"
    /\ Len(doc_vecs) = docs_len
    /\ k_in > 0
    /\ k' = IF k_in < Len(doc_vecs) THEN k_in ELSE Len(doc_vecs)
    /\ rel' = RelOf(query_vec, doc_vecs)
    /\ selected' = <<>>
    /\ remaining' = 0..(Len(doc_vecs) - 1)
    /\ results' = <<>>
    /\ m_pc' = "loop"
    /\ UNCHANGED <<query_vec, doc_vecs, docs_len, k_in, lam>>
    /\ UNCHANGED otherThanMmr

\* lines 65-82: one iteration of `for _ in range(k)` that selects a candidate
MmrSelect ==
    /\ m_pc = "loop"
    /\ Len(selected) < k
    /\ LET best == ScanRemaining(ListOfSet(remaining), doc_vecs, rel, lam,
                              selected, NoBest)
       IN /\ ~best.none
          /\ selected' = Append(selected, best.idx)
          /\ remaining' = Discard(remaining, best.idx)
          /\ results' = Append(results, [index |-> best.idx, score |-> best.score])
    /\ UNCHANGED <<m_pc, query_vec, doc_vecs, docs_len, k_in, lam, k, rel>>
    /\ UNCHANGED otherThanMmr

\* lines 78-79 and 84: the loop ends (range exhausted, or best_idx is None)
MmrReturn ==
    /\ m_pc = "loop"
    /\ \/ Len(selected) >= k
       \/ remaining = {}
    /\ m_pc' = "returned"
    /\ UNCHANGED <<query_vec, doc_vecs, docs_len, k_in, lam, k, rel,
                   selected, remaining, results>>
    /\ UNCHANGED otherThanMmr

MmrNext ==
    \/ MmrRaise
    \/ MmrReturnEmpty
    \/ MmrEnter
    \/ MmrSelect
    \/ MmrReturn


(***************************************************************************)
(* search.py: search                                                       *)
(*                                                                         *)
(* A SearchItem is [id, score, path].  summary and keywords of an item are *)
(* those of the document row with that id on both paths, so they are not   *)
(* carried; path ("kw" | "vec") is history only: it records which list the *)
(* item object was built in.  Scores are in ScoreUnit-ths, distances in    *)
(* DistUnit-ths.                                                           *)
(***************************************************************************)
ScoreUnit == 6 * 10
DistUnit == 2 * 5
NoEmbedding == -1

Ids == 1..MaxIds
\* distances 0.2, 1.0, 3.0
Dists == {2, 10, 30}
DocRows == [kw : BOOLEAN, dist : Dists \cup {NoEmbedding}]
TopKs == 1..MaxIds

\* line 64: score=0.5
KwScore == ScoreUnit \div 2
\* line 73: 1.0 / (1.0 + distance)
VecScore(dist) == (ScoreUnit * DistUnit) \div (DistUnit + dist)

\* every listing of a finite set (an SQL result without ORDER BY)
Perms(S) ==
    {f \in [1..Cardinality(S) -> S] :
        \A i, j \in 1..Cardinality(S) : f[i] = f[j] => i = j}

FirstN(s, n) == SubSeq(s, 1, IF n < Len(s) THEN n ELSE Len(s))

\* line 40: rows whose summary matches the query, in any order
KwResults(db) == Perms({id \in Ids : db[id].kw})

\* lines 45-54: rows with an embedding, by ascending distance (rows at the
\* same distance in any order), cut to top_k
VecResults(db, tk) ==
    {FirstN(p, tk) : p \in {q \in Perms({id \in Ids : db[id].dist # NoEmbedding}) :
        \A i, j \in 1..Len(q) : i < j => db[q[i]].dist <= db[q[j]].dist}}

\* lines 63-66
KwItems(rows) ==
    [i \in 1..Len(rows) |-> [id |-> rows[i], score |-> KwScore, path |-> "kw"]]

\* lines 70-78
VecItems(rows, db) ==
    [i \in 1..Len(rows) |->
        [id |-> rows[i], score |-> VecScore(db[rows[i]].dist), path |-> "vec"]]

\* Mutant of Gather: results bound in the order the tasks finished
Gather_ByCompletion(kw_rows, vec_rows, order) ==
    IF order[1] = "kw" THEN <<kw_rows, vec_rows>> ELSE <<vec_rows, kw_rows>>

\* line 59: asyncio.gather returns the results in the order of its arguments
Gather(kw_rows, vec_rows, order) == <<kw_rows, vec_rows>>

\* Mutant of ShouldReplace: an equal score replaces the stored item as well
ShouldReplace_OrEqual(old, new) == old.score <= new.score

\* Mutant of ShouldReplace: the lower score wins
ShouldReplace_Lower(old, new) == old.score > new.score

\* line 83: merged[item.id].score < item.score
ShouldReplace(old, new) == old.score < new.score

\* position of id in the dict, 0 when absent (item.id not in merged)
PosOf(m, id) ==
    IF \E i \in 1..Len(m) : m[i].id = id
    THEN CHOOSE i \in 1..Len(m) : m[i].id = id
    ELSE 0

\* Mutant of MergeStep: every item is stored, nothing is deduplicated
MergeStep_NoDedup(m, item) == Append(m, item)

\* Mutant of MergeStep: a replaced id moves to the end of the dict
MergeStep_MoveToEnd(m, item) ==
    LET p == PosOf(m, item.id)
    IN IF p = 0 THEN Append(m, item)
       ELSE IF ShouldReplace(m[p], item)
            THEN Append(SubSeq(m, 1, p - 1) \o SubSeq(m, p + 1, Len(m)), item)
            ELSE m

\* lines 83-84: one iteration of the merge loop.  Assigning to a key a dict
\* already holds keeps the key's position.
MergeStep(m, item) ==
    LET p == PosOf(m, item.id)
    IN IF p = 0 THEN Append(m, item)
       ELSE IF ShouldReplace(m[p], item)
            THEN [m EXCEPT ![p] = item]
            ELSE m

\* lines 81-84 as a function of the list kw_items + vec_items
RECURSIVE MergeFrom(_, _)
MergeFrom(m, list) ==
    IF list = <<>> THEN m ELSE MergeFrom(MergeStep(m, Head(list)), Tail(list))
MergeAll(list) == MergeFrom(<<>>, list)

Reverse(s) == [i \in 1..Len(s) |-> s[Len(s) + 1 - i]]

\* lines 88-101: what client.rerank can hand back for a non-empty list
\* (the gateway answers an empty list with 400, gateway.py line 121)
RerankReplies(its) == IF its = <<>> THEN {} ELSE {its, Reverse(its)}

NoTask == [st |-> "none", rows |-> <<>>]

SearchPcs == {"idle", "start", "querying", "gathered", "merging", "merged",
              "reranked", "answered", "returned", "failed"}

SearchIdle ==
    /\ s_pc = "idle"
    /\ db_docs = <<>>
    /\ top_k = 0
    /\ kw_task = NoTask
    /\ vec_task = NoTask
    /\ done_order = <<>>
    /\ res_kw = <<>>
    /\ res_vec = <<>>
    /\ kw_items = <<>>
    /\ vec_items = <<>>
    /\ merged = <<>>
    /\ merge_i = 0
    /\ items = <<>>
    /\ reranked_items = <<>>
    /\ answer = "none"
    /\ client_open = FALSE
    /\ response = "none"
    /\ s_log = <<>>
    /\ rerank_reply = "none"

\* Mutant of GatherReturns: the first task to succeed ends the wait
GatherReturns_FirstDone(kw, vec) == kw.st = "done" \/ vec.st = "done"

\* Mutant of GatherReturns: a failed task counts as one without rows
GatherReturns_Finished(kw, vec) ==
    kw.st \in {"done", "failed"} /\ vec.st \in {"done", "failed"}

\* line 59: asyncio.gather returns when both tasks have a result
GatherReturns(kw, vec) == kw.st = "done" /\ vec.st = "done"

\* line 59: asyncio.gather raises when a task has raised
GatherRaises(kw, vec) == kw.st = "failed" \/ vec.st = "failed"

\* line 36: a request arrives and its client is constructed
SearchInit ==
    /\ s_pc = "start"
    /\ db_docs \in [Ids -> DocRows]
    /\ top_k \in TopKs
    /\ kw_task = NoTask
    /\ vec_task = NoTask
    /\ done_order = <<>>
    /\ res_kw = <<>>
    /\ res_vec = <<>>
    /\ kw_items = <<>>
    /\ vec_items = <<>>
    /\ merged = <<>>
    /\ merge_i = 0
    /\ items = <<>>
    /\ reranked_items = <<>>
    /\ answer = "none"
    /\ client_open = TRUE
    /\ response = "none"
    /\ s_log = <<>>
    /\ rerank_reply = "none"

\* Mutant of Fail: the exception is swallowed and a response is returned
Fail_ReturnsEmpty ==
    /\ s_pc' = "returned"
    /\ response' = "ok"

\* lines 111-113: any exception becomes HTTP 500; the client is not closed
Fail ==
    /\ s_pc' = "failed"
    /\ response' = "http500"

\* lines 37-58: embed_text succeeds, both statements are built and both
\* tasks are created
SearchEmbedAndSpawn ==
    /\ s_pc = "start"
    /\ s_pc' = "querying"
    /\ kw_task' = [st |-> "pending", rows |-> <<>>]
    /\ vec_task' = [st |-> "pending", rows |-> <<>>]
    /\ UNCHANGED <<db_docs, top_k, done_order, res_kw, res_vec, kw_items,
                   vec_items, merged, merge_i, items, reranked_items, answer,
                   client_open, response>>
    /\ s_log' = s_log \o <<"embed", "kw_query", "vec_query", "gather">>
    /\ UNCHANGED rerank_reply
    /\ UNCHANGED otherThanSearch

\* line 37: embed_text raises
SearchEmbedFail ==
    /\ s_pc = "start"
    /\ Fail
    /\ UNCHANGED <<db_docs, top_k, kw_task, vec_task, done_order, res_kw,
                   res_vec, kw_items, vec_items, merged, merge_i, items,
                   reranked_items, answer, client_open>>
    /\ s_log' = s_log \o <<"embed">>
    /\ UNCHANGED rerank_reply
    /\ UNCHANGED otherThanSearch

\* line 57: the keyword query finishes, with rows or with an exception.  A
\* task runs on the event loop whether or not the handler still waits for it.
KwTaskFinish ==
    /\ kw_task.st = "pending"
    /\ \/ \E rows \in KwResults(db_docs) : kw_task' = [st |-> "done", rows |-> rows]
       \/ kw_task' = [st |-> "failed", rows |-> <<>>]
    /\ done_order' = Append(done_order, "kw")
    /\ UNCHANGED <<s_pc, db_docs, top_k, vec_task, res_kw, res_vec, kw_items,
                   vec_items, merged, merge_i, items, reranked_items, answer,
                   client_open, response>>
    /\ UNCHANGED searchHist
    /\ UNCHANGED otherThanSearch

\* line 58: the vector query finishes, with rows or with an exception
VecTaskFinish ==
    /\ vec_task.st = "pending"
    /\ \/ \E rows \in VecResults(db_docs, top_k) : vec_task' = [st |-> "done", rows |-> rows]
       \/ vec_task' = [st |-> "failed", rows |-> <<>>]
    /\ done_order' = Append(done_order, "vec")
    /\ UNCHANGED <<s_pc, db_docs, top_k, kw_task, res_kw, res_vec, kw_items,
                   vec_items, merged, merge_i, items, reranked_items, answer,
                   client_open, response>>
    /\ UNCHANGED searchHist
    /\ UNCHANGED otherThanSearch

\* lines 59-78: gather returns once both tasks are done; the rows are turned
\* into kw_items and vec_items
SearchGather ==
    /\ s_pc = "querying"
    /\ GatherReturns(kw_task, vec_task)
    /\ LET g == Gather(kw_task.rows, vec_task.rows, done_order)
       IN /\ res_kw' = g[1]
          /\ res_vec' = g[2]
          /\ kw_items' = KwItems(g[1])
          /\ vec_items' = VecItems(g[2], db_docs)
    /\ merged' = <<>>
    /\ merge_i' = 0
    /\ s_pc' = "merging"
    /\ UNCHANGED <<db_docs, top_k, kw_task, vec_task, done_order, items,
                   reranked_items, answer, client_open, response>>
    /\ s_log' = s_log \o <<"gathered">>
    /\ UNCHANGED rerank_reply
    /\ UNCHANGED otherThanSearch

\* line 59: gather raises as soon as one task has failed; the other task is
\* neither awaited nor cancelled
SearchGatherFail ==
    /\ s_pc = "querying"
    /\ GatherRaises(kw_task, vec_task)
    /\ Fail
    /\ UNCHANGED <<db_docs, top_k, kw_task, vec_task, done_order, res_kw,
                   res_vec, kw_items, vec_items, merged, merge_i, items,
                   reranked_items, answer, client_open>>
    /\ UNCHANGED searchHist
    /\ UNCHANGED otherThanSearch

\* lines 82-84: one iteration of `for item in kw_items + vec_items`
SearchMergeStep ==
    /\ s_pc = "merging"
    /\ merge_i < Len(kw_items \o vec_items)
    /\ merged' = MergeStep(merged, (kw_items \o vec_items)[merge_i + 1])
    /\ merge_i' = merge_i + 1
    /\ UNCHANGED <<s_pc, db_docs, top_k, kw_task, vec_task, done_order, res_kw,
                   res_vec, kw_items, vec_items, items, reranked_items, answer,
                   client_open, response>>
    /\ UNCHANGED searchHist
    /\ UNCHANGED otherThanSearch

\* line 85: items = list(merged.values())
SearchMergeDone ==
    /\ s_pc = "merging"
    /\ merge_i = Len(kw_items \o vec_items)
    /\ items' = merged
    /\ s_pc' = "merged"
    /\ UNCHANGED <<db_docs, top_k, kw_task, vec_task, done_order, res_kw,
                   res_vec, kw_items, vec_items, merged, merge_i,
                   reranked_items, answer, client_open, response>>
    /\ UNCHANGED searchHist
    /\ UNCHANGED otherThanSearch

\* lines 88-101: client.rerank returns a list, mapped back to SearchItems
SearchRerank ==
    /\ s_pc = "merged"
    /\ \E reply \in RerankReplies(items) : reranked_items' = reply
    /\ s_pc' = "reranked"
    /\ UNCHANGED <<db_docs, top_k, kw_task, vec_task, done_order, res_kw,
                   res_vec, kw_items, vec_items, merged, merge_i, items,
                   answer, client_open, response>>
    /\ s_log' = s_log \o <<"rerank">>
    /\ rerank_reply' = "list"
    /\ UNCHANGED otherThanSearch

\* llms_gateway_client.py line 41, resp.json().get("items", items): the body
\* of a 2xx reply has no "items", and the items sent are taken as the reply
SearchRerankFallback ==
    /\ s_pc = "merged"
    /\ reranked_items' = items
    /\ s_pc' = "reranked"
    /\ s_log' = s_log \o <<"rerank">>
    /\ rerank_reply' = "missing"
    /\ UNCHANGED <<db_docs, top_k, kw_task, vec_task, done_order, res_kw,
                   res_vec, kw_items, vec_items, merged, merge_i, items,
                   answer, client_open, response>>
    /\ UNCHANGED otherThanSearch

\* line 88: client.rerank raises (transport error or error status)
SearchRerankFail ==
    /\ s_pc = "merged"
    /\ Fail
    /\ UNCHANGED <<db_docs, top_k, kw_task, vec_task, done_order, res_kw,
                   res_vec, kw_items, vec_items, merged, merge_i, items,
                   reranked_items, answer, client_open>>
    /\ s_log' = s_log \o <<"rerank">>
    /\ rerank_reply' = "error"
    /\ UNCHANGED otherThanSearch

\* lines 104-107: chat_completions returns the answer
SearchAnswer ==
    /\ s_pc = "reranked"
    /\ answer' = "text"
    /\ s_pc' = "answered"
    /\ UNCHANGED <<db_docs, top_k, kw_task, vec_task, done_order, res_kw,
                   res_vec, kw_items, vec_items, merged, merge_i, items,
                   reranked_items, client_open, response>>
    /\ s_log' = s_log \o <<"chat">>
    /\ UNCHANGED rerank_reply
    /\ UNCHANGED otherThanSearch

\* line 104: chat_completions raises
SearchAnswerFail ==
    /\ s_pc = "reranked"
    /\ Fail
    /\ UNCHANGED <<db_docs, top_k, kw_task, vec_task, done_order, res_kw,
                   res_vec, kw_items, vec_items, merged, merge_i, items,
                   reranked_items, answer, client_open>>
    /\ s_log' = s_log \o <<"chat">>
    /\ UNCHANGED rerank_reply
    /\ UNCHANGED otherThanSearch

\* lines 108-110: close the client and return the SearchResponse
SearchReturn ==
    /\ s_pc = "answered"
    /\ client_open' = FALSE
    /\ response' = "ok"
    /\ s_pc' = "returned"
    /\ UNCHANGED <<db_docs, top_k, kw_task, vec_task, done_order, res_kw,
                   res_vec, kw_items, vec_items, merged, merge_i, items,
                   reranked_items, answer>>
    /\ s_log' = s_log \o <<"close">>
    /\ UNCHANGED rerank_reply
    /\ UNCHANGED otherThanSearch

SearchNext ==
    \/ SearchEmbedAndSpawn
    \/ SearchEmbedFail
    \/ KwTaskFinish
    \/ VecTaskFinish
    \/ SearchGather
    \/ SearchGatherFail
    \/ SearchMergeStep
    \/ SearchMergeDone
    \/ SearchRerank
    \/ SearchRerankFallback
    \/ SearchRerankFail
    \/ SearchAnswer
    \/ SearchAnswerFail
    \/ SearchReturn


(***************************************************************************)
(* rerank.py: _extract_json_array                                          *)
(*                                                                         *)
(* A text is a sequence of tokens:                                         *)
(*   "["  "]"  ","   the JSON punctuation                                  *)
(*   "a"  "b"        two JSON objects, the rerank items with index 0 and 1 *)
(*   "m"             a JSON object that is no rerank item: it lacks score  *)
(*   "s"             white space                                           *)
(*   "x"             a word of prose (not JSON)                            *)
(*   "F"             a fence of three backticks                            *)
(*   "j"             the word json                                         *)
(*   "T"  "U"        <think> and </think>                                  *)
(* A parsed JSON value is kept as its tokens without white space.          *)
(***************************************************************************)
Tok(t, i) == IF i >= 1 /\ i <= Len(t) THEN t[i] ELSE "EOF"

\* the first position at or after i that holds no white space
RECURSIVE SkipWs(_, _)
SkipWs(t, i) == IF Tok(t, i) = "s" THEN SkipWs(t, i + 1) ELSE i

\* json: the position after the value that starts at i, 0 if there is none
RECURSIVE ParseValue(_, _)
RECURSIVE ParseElems(_, _)
ParseValue(t, i) ==
    IF Tok(t, i) \in {"a", "b", "m"} THEN i + 1
    ELSE IF Tok(t, i) = "["
         THEN LET j == SkipWs(t, i + 1)
              IN IF Tok(t, j) = "]" THEN j + 1 ELSE ParseElems(t, j)
         ELSE 0
ParseElems(t, j) ==
    LET e == ParseValue(t, j)
        n == SkipWs(t, e)
    IN IF e = 0 THEN 0
       ELSE IF Tok(t, n) = "]" THEN n + 1
       ELSE IF Tok(t, n) = "," THEN ParseElems(t, SkipWs(t, n + 1))
       ELSE 0

NoWs(t) == SelectSeq(t, LAMBDA c : c # "s")

\* lines 110-115 and 139-144: json.loads(text) succeeded and gave a list
LoadsList(t) ==
    LET i == SkipWs(t, 1)
        e == IF Tok(t, i) = "[" THEN ParseValue(t, i) ELSE 0
    IN e # 0 /\ SkipWs(t, e) = Len(t) + 1

\* the first position >= i holding token c, 0 if none
RECURSIVE Find(_, _, _)
Find(t, c, i) ==
    IF i > Len(t) THEN 0 ELSE IF t[i] = c THEN i ELSE Find(t, c, i + 1)

\* Mutant of RemoveThink: the reasoning blocks are left in the text
RemoveThink_Kept(t) == t

\* line 117: re.sub(r"<think>.*?</think>", "", text, flags=re.S)
RECURSIVE RemoveThinkFrom(_, _)
RemoveThinkFrom(t, i) ==
    IF i > Len(t) THEN <<>>
    ELSE IF t[i] = "T" /\ Find(t, "U", i + 1) # 0
         THEN RemoveThinkFrom(t, Find(t, "U", i + 1) + 1)
         ELSE <<t[i]>> \o RemoveThinkFrom(t, i + 1)
RemoveThink(t) == RemoveThinkFrom(t, 1)

\* line 119, the tail \[[\s\S]*?\])\s*``` of the pattern: the first "]" at or
\* after e that is followed by optional white space and a fence, 0 if none
RECURSIVE FenceClose(_, _)
FenceClose(t, e) ==
    IF e > Len(t) THEN 0
    ELSE IF t[e] = "]" /\ Tok(t, SkipWs(t, e + 1)) = "F" THEN e
    ELSE FenceClose(t, e + 1)

\* Mutant of FenceMatch: the pattern without the optional json tag
FenceMatch_NoTag(t, p) ==
    LET o == SkipWs(t, p + 1)
        c == IF Tok(t, p) = "F" /\ Tok(t, o) = "[" THEN FenceClose(t, o + 1) ELSE 0
    IN IF c = 0 THEN [open |-> 0, close |-> 0, next |-> p + 1]
       ELSE [open |-> o, close |-> c, next |-> SkipWs(t, c + 1) + 1]

\* line 119: a match of ```(?:json)?\s*(\[[\s\S]*?\])\s*``` starting at p, as
\* [open, close, next]: the group's span and the position after the match;
\* open = 0 when the pattern does not match at p
FenceMatch(t, p) ==
    LET q == IF Tok(t, p + 1) = "j" THEN p + 2 ELSE p + 1
        o == SkipWs(t, q)
        c == IF Tok(t, p) = "F" /\ Tok(t, o) = "[" THEN FenceClose(t, o + 1) ELSE 0
    IN IF c = 0 THEN [open |-> 0, close |-> 0, next |-> p + 1]
       ELSE [open |-> o, close |-> c, next |-> SkipWs(t, c + 1) + 1]

\* line 119: re.findall, the groups of the non-overlapping matches from the left
RECURSIVE FindFences(_, _)
FindFences(t, p) ==
    IF p > Len(t) THEN <<>>
    ELSE LET m == FenceMatch(t, p)
         IN IF m.open = 0 THEN FindFences(t, p + 1)
            ELSE <<SubSeq(t, m.open, m.close)>> \o FindFences(t, m.next)

\* lines 122-134: the bracket depth scan; [start, depth, last]
RECURSIVE ScanBrackets(_, _, _)
ScanBrackets(t, i, st) ==
    IF i > Len(t) THEN st
    ELSE LET ch == t[i]
             nx == IF ch = "["
                   THEN [st EXCEPT !.start = IF st.depth = 0 THEN i ELSE st.start,
                                   !.depth = st.depth + 1]
                   ELSE IF ch = "]" /\ st.depth > 0
                   THEN [st EXCEPT !.depth = st.depth - 1,
                                   !.last = IF st.depth - 1 = 0 /\ st.start # 0
                                            THEN SubSeq(t, st.start, i)
                                            ELSE st.last]
                   ELSE st
         IN ScanBrackets(t, i + 1, nx)
LastSpan(t) == ScanBrackets(t, 1, [start |-> 0, depth |-> 0, last |-> <<>>]).last

\* lines 120 and 135-136: candidates = fences, then last appended when found
Candidates(fences, last) ==
    IF last # <<>> THEN Append(fences, last) ELSE fences

\* Mutant of NoArray: the failure is swallowed into an empty list
NoArray_EmptyList == [ok |-> TRUE, val |-> <<"[", "]">>]

\* line 145: raise ValueError
NoArray == [ok |-> FALSE, val |-> <<>>]

\* lines 138-145: the first candidate, in the given order, that loads as a list
RECURSIVE FirstList(_)
FirstList(cands) ==
    IF cands = <<>> THEN NoArray
    ELSE IF LoadsList(Head(cands)) THEN [ok |-> TRUE, val |-> NoWs(Head(cands))]
    ELSE FirstList(Tail(cands))

RevSeq(s) == [i \in 1..Len(s) |-> s[Len(s) + 1 - i]]

\* lines 107-145
extract_json_array(text) ==
    IF LoadsList(text) THEN [ok |-> TRUE, val |-> NoWs(text)]
    ELSE LET cleaned == RemoveThink(text)
             fences == FindFences(cleaned, 1)
             last == LastSpan(cleaned)
         IN FirstList(RevSeq(Candidates(fences, last)))

(***************************************************************************)
(* rerank.py: rerank, prompt path from the upstream reply on (lines 257-279)*)
(***************************************************************************)
\* the texts a reply is made of
Blocks == {
    <<"x">>,
    <<"[", "a", "]">>,
    <<"[", "b", "]">>,
    <<"[", "x", "]">>,
    <<"[", "a", ",", "b", "]">>,
    <<"F", "[", "a", "]", "F">>,
    <<"F", "j", "s", "[", "b", "]", "s", "F">>,
    <<"T", "[", "a", "]", "U">>,
    <<"[">>,
    <<"]">>,
    <<"F">>,
    <<"T">> }

RECURSIVE Concat(_)
Concat(bs) == IF bs = <<>> THEN <<>> ELSE Head(bs) \o Concat(Tail(bs))

Texts == {Concat(bs) : bs \in SeqsUpTo(Blocks, MaxBlocks)}

\* the elements of a parsed array (tokens without white space), in order
RECURSIVE ElemsFrom(_, _)
ElemsFrom(v, i) ==
    IF Tok(v, i) = "]" \/ i > Len(v) THEN <<>>
    ELSE LET e == ParseValue(v, i)
         IN <<SubSeq(v, i, e - 1)>> \o
            ElemsFrom(v, IF Tok(v, e) = "," THEN e + 1 ELSE e)
Elems(v) == ElemsFrom(v, 2)

\* Mutant of ItemOk: a missing field is let through
ItemOk_AnyObject(it) == it \in {<<"a">>, <<"b">>, <<"m">>}

\* lines 268-274: an item is turned into a result when it carries index,
\* score and document and int(idx), float(score) succeed: "a" and "b" do,
\* "m" does not, and a nested list has no .get
ItemOk(it) == it \in {<<"a">>, <<"b">>}
ItemIndex(it) == IF it = <<"a">> THEN 0 ELSE 1

\* Mutant of PromptResults: the results are cut to the first top_n
PromptResults_CutToTopN(its) ==
    [i \in 1..(IF req.top_n > 0 /\ req.top_n < Len(its) THEN req.top_n ELSE Len(its))
       |-> ItemIndex(its[i])]

\* lines 267-274: results, one RerankResult per item in the order of the array
PromptResults(its) == [i \in 1..Len(its) |-> ItemIndex(its[i])]

NotExtracted == [ok |-> FALSE, val |-> <<>>]

(***************************************************************************)
(* rerank.py: rerank, from the request to the upstream reply (148-256)     *)
(***************************************************************************)
\* the longest documents list of a request
MaxInputs == 2

\* schemas.py line 160: top_n is None; 0 takes the same branches (line 206)
NoTopN == 0

\* str.strip on the query values of the model
Strip(q) == IF q = " " THEN "" ELSE q

\* Mutant of ProviderLower: the provider is compared as it was sent
ProviderLower_AsSent(p) == p

\* line 170: (req.provider or "").strip().lower()
ProviderLower(p) ==
    IF p = "LMStudio" THEN "lmstudio"
    ELSE IF p = "OpenAI" THEN "openai"
    ELSE p

\* Mutant of KOf: top_n is ignored
KOf_AllDocs(top_n, n) == n

\* line 206: k = req.top_n if (req.top_n and req.top_n > 0) else len(doc_vecs)
KOf(top_n, n) == IF top_n # 0 /\ top_n > 0 THEN top_n ELSE n

Queries == {"", " ", "q"}
Providers == {"LMStudio", "lmstudio", "OpenAI"}
TopNs == {NoTopN} \cup (1..MaxInputs)
Requests == [query : Queries, documents : 0..MaxInputs,
             provider : Providers, top_n : TopNs]
NoRequest == [query |-> "", documents |-> 0, provider |-> "", top_n |-> NoTopN]

\* the status codes an upstream answers a failed call with
UpstreamStatuses == {429, 500}
\* the vectors an embeddings upstream returns
EmbVecs == {<<5, 0>>, <<4, 3>>, <<0, 0>>}
\* the reply texts of a chat upstream
Replies == {
    <<>>,
    <<"x">>,
    <<"[", "]">>,
    <<"[", "a", "]">>,
    <<"[", "a", ",", "b", "]">>,
    <<"[", "b", ",", "a", "]">>,
    <<"[", "m", "]">>,
    <<"[", "a", ",", "m", "]">>,
    <<"[", "a", ",", "[", "b", "]", "]">>,
    <<"x", "F", "j", "s", "[", "b", ",", "a", "]", "s", "F">>,
    <<"T", "x", "U", "[", "a", ",", "b", ",", "a", "]">> }

RerankPcs == {"idle", "start", "lookup", "embedding", "mmr", "chatting",
              "replied", "extracted", "responded"}

RerankIdle ==
    /\ r_pc = "idle"
    /\ req = NoRequest
    /\ r_calls = <<>>
    /\ emb_reply = "none"
    /\ content = <<>>
    /\ extracted = NotExtracted
    /\ r_status = 0
    /\ r_results = <<>>

\* line 149: a request arrives
RerankRequestInit ==
    /\ r_pc = "start"
    /\ req \in Requests
    /\ r_calls = <<>>
    /\ emb_reply = "none"
    /\ content = <<>>
    /\ extracted = NotExtracted
    /\ r_status = 0
    /\ r_results = <<>>

\* lines 246-262: the upstream answered 200 and content is read from it
RerankInit ==
    /\ r_pc = "replied"
    /\ req = [query |-> "q", documents |-> MaxInputs, provider |-> "OpenAI",
              top_n |-> NoTopN]
    /\ r_calls = <<"credential", "chat">>
    /\ emb_reply = "none"
    /\ content \in Texts
    /\ extracted = NotExtracted
    /\ r_status = 0
    /\ r_results = <<>>

\* the handler ends with an HTTPException of the given status
Respond(status) ==
    /\ r_status' = status
    /\ r_pc' = "responded"

\* Mutant of Invalid: the documents list is not looked at
Invalid_QueryOnly(r) == Strip(r.query) = ""

\* lines 155-158: the basic validation
Invalid(r) == Strip(r.query) = "" \/ r.documents = 0

\* lines 155-158: query or documents empty, HTTP 400
RerankReject ==
    /\ r_pc = "start"
    /\ Invalid(req)
    /\ Respond(400)
    /\ UNCHANGED <<requestVars, content, extracted, r_results>>
    /\ UNCHANGED otherThanRerank

\* lines 161-163: the credential lookup is issued
RerankLookup ==
    /\ r_pc = "start"
    /\ ~Invalid(req)
    /\ r_calls' = Append(r_calls, "credential")
    /\ r_pc' = "lookup"
    /\ UNCHANGED <<req, emb_reply, content, extracted, r_status, r_results>>
    /\ UNCHANGED otherThanRerank

\* lines 161-163: db.execute raises, which the handler does not catch
RerankLookupRaises ==
    /\ r_pc = "lookup"
    /\ Respond(500)
    /\ UNCHANGED <<requestVars, content, extracted, r_results>>
    /\ UNCHANGED otherThanRerank

\* lines 164-168: no credential, or one without base_url, HTTP 400
RerankNoCredential ==
    /\ r_pc = "lookup"
    /\ Respond(400)
    /\ UNCHANGED <<requestVars, content, extracted, r_results>>
    /\ UNCHANGED otherThanRerank

\* lines 170-188: provider LMStudio, the embeddings call is issued
RerankCallEmbeddings ==
    /\ r_pc = "lookup"
    /\ ProviderLower(req.provider) = "lmstudio"
    /\ r_calls' = Append(r_calls, "embeddings")
    /\ r_pc' = "embedding"
    /\ UNCHANGED <<req, emb_reply, content, extracted, r_status, r_results>>
    /\ UNCHANGED otherThanRerank

\* lines 189-192: the embeddings call fails, with the upstream's status or 502
RerankEmbeddingsFail ==
    /\ r_pc = "embedding"
    /\ emb_reply' = "error"
    /\ \E st \in UpstreamStatuses \cup {502} : Respond(st)
    /\ UNCHANGED <<req, r_calls, content, extracted, r_results>>
    /\ UNCHANGED otherThanRerank

\* lines 196-204 and 209-210: fewer vectors than inputs, or an embedding
\* that is no list, HTTP 502
RerankEmbeddingsUnusable ==
    /\ r_pc = "embedding"
    /\ emb_reply' \in {"short", "bad_format"}
    /\ Respond(502)
    /\ UNCHANGED <<req, r_calls, content, extracted, r_results>>
    /\ UNCHANGED otherThanRerank

\* lines 196-208: at least one vector per input; _mmr_rank is called
RerankCallMmr ==
    /\ r_pc = "embedding"
    /\ emb_reply' = "ok"
    /\ \E n \in (1 + req.documents)..(2 + req.documents) :
         \E vecs \in [1..n -> EmbVecs] :
            /\ query_vec' = Head(vecs)
            /\ doc_vecs' = Tail(vecs)
            /\ k_in' = KOf(req.top_n, n - 1)
            /\ k' = KOf(req.top_n, n - 1)
    /\ docs_len' = req.documents
    /\ lam' = 7
    /\ m_pc' = "call"
    /\ r_pc' = "mmr"
    /\ UNCHANGED <<rel, selected, remaining, results>>
    /\ UNCHANGED <<req, r_calls, content, extracted, r_status, r_results>>
    /\ UNCHANGED otherThanRerankAndMmr

\* lines 209-210: _mmr_rank raised, HTTP 502
RerankMmrRaised ==
    /\ r_pc = "mmr"
    /\ m_pc = "raised"
    /\ Respond(502)
    /\ UNCHANGED <<requestVars, content, extracted, r_results>>
    /\ UNCHANGED otherThanRerank

\* line 212: the results of _mmr_rank are returned
RerankMmrReturned ==
    /\ r_pc = "mmr"
    /\ m_pc = "returned"
    /\ r_results' = [i \in 1..Len(results) |-> results[i].index]
    /\ Respond(200)
    /\ UNCHANGED <<requestVars, content, extracted>>
    /\ UNCHANGED otherThanRerank

\* lines 170-173 and 215-250: any other provider, the chat call is issued
RerankCallChat ==
    /\ r_pc = "lookup"
    /\ ProviderLower(req.provider) # "lmstudio"
    /\ r_calls' = Append(r_calls, "chat")
    /\ r_pc' = "chatting"
    /\ UNCHANGED <<req, emb_reply, content, extracted, r_status, r_results>>
    /\ UNCHANGED otherThanRerank

\* lines 251-254: the chat call fails, with the upstream's status or 502
RerankChatFail ==
    /\ r_pc = "chatting"
    /\ \E st \in UpstreamStatuses \cup {502} : Respond(st)
    /\ UNCHANGED <<requestVars, content, extracted, r_results>>
    /\ UNCHANGED otherThanRerank

\* lines 246-262: the upstream answered 200 and content is read from it
RerankChatReply ==
    /\ r_pc = "chatting"
    /\ content' \in Replies
    /\ r_pc' = "replied"
    /\ UNCHANGED <<requestVars, extracted, r_status, r_results>>
    /\ UNCHANGED otherThanRerank

\* lines 263-264 and 275-276: empty content
RerankNoContent ==
    /\ r_pc = "replied"
    /\ content = <<>>
    /\ Respond(502)
    /\ UNCHANGED <<content, extracted, r_results>>
    /\ UNCHANGED requestVars
    /\ UNCHANGED otherThanRerank

\* line 266: items = _extract_json_array(content) returns
RerankExtract ==
    /\ r_pc = "replied"
    /\ content # <<>>
    /\ extract_json_array(content).ok
    /\ extracted' = extract_json_array(content)
    /\ r_pc' = "extracted"
    /\ UNCHANGED <<content, r_status, r_results>>
    /\ UNCHANGED requestVars
    /\ UNCHANGED otherThanRerank

\* lines 266 and 275-276: _extract_json_array raises, answered with 502
RerankExtractRaises ==
    /\ r_pc = "replied"
    /\ content # <<>>
    /\ ~extract_json_array(content).ok
    /\ extracted' = extract_json_array(content)
    /\ Respond(502)
    /\ UNCHANGED <<content, r_results>>
    /\ UNCHANGED requestVars
    /\ UNCHANGED otherThanRerank

\* lines 267-279: every item is well formed, the results are returned
RerankRespond ==
    /\ r_pc = "extracted"
    /\ \A i \in 1..Len(Elems(extracted.val)) : ItemOk(Elems(extracted.val)[i])
    /\ r_results' = PromptResults(Elems(extracted.val))
    /\ Respond(200)
    /\ UNCHANGED <<content, extracted>>
    /\ UNCHANGED requestVars
    /\ UNCHANGED otherThanRerank

\* lines 268-276: an item is not a well formed object, answered with 502
RerankBadItem ==
    /\ r_pc = "extracted"
    /\ \E i \in 1..Len(Elems(extracted.val)) : ~ItemOk(Elems(extracted.val)[i])
    /\ Respond(502)
    /\ UNCHANGED <<content, extracted, r_results>>
    /\ UNCHANGED requestVars
    /\ UNCHANGED otherThanRerank

RerankNext ==
    \/ RerankNoContent
    \/ RerankExtract
    \/ RerankExtractRaises
    \/ RerankRespond
    \/ RerankBadItem

RerankRequestNext ==
    \/ RerankReject
    \/ RerankLookup
    \/ RerankLookupRaises
    \/ RerankNoCredential
    \/ RerankCallEmbeddings
    \/ RerankEmbeddingsFail
    \/ RerankEmbeddingsUnusable
    \/ RerankCallMmr
    \/ MmrRaise
    \/ MmrEnter
    \/ MmrSelect
    \/ MmrReturn
    \/ RerankMmrRaised
    \/ RerankMmrReturned
    \/ RerankCallChat
    \/ RerankChatFail
    \/ RerankChatReply
    \/ RerankNoContent
    \/ RerankExtract
    \/ RerankExtractRaises
    \/ RerankRespond
    \/ RerankBadItem

(***************************************************************************)
(* gateway.py: gateway_reranker (lines 117-150)                            *)
(*                                                                         *)
(* _rerank is the rerank handler called as a function.  Its outcome is     *)
(* taken as any RerankResponse or HTTPException the handler's type allows: *)
(* the prompt path hands on the indexes of the upstream model unchanged    *)
(* (rerank.py lines 267-274), so resp.results may hold any index.          *)
(***************************************************************************)
\* the longest items list of a payload and the longest resp.results
MaxItems == 2
MaxResults == 3

\* items[i] has id i; obj tells whether it is a JSON object (a dict)
ItemLists ==
    UNION {{[i \in 1..n |-> [id |-> i, score |-> 1, obj |-> flags[i]]] :
              flags \in [1..n -> BOOLEAN]} : n \in 0..MaxItems}
Payloads == [query : Queries, items : ItemLists]
NoPayload == [query |-> "", items |-> <<>>]

\* the results a RerankResponse may carry
RerankResults == [index : (-1)..MaxItems, score : {3, 8}]

\* Mutant of InRange: only the upper end is checked
InRange_UpperOnly(index, n) == index < n

\* line 136: not (r.index < 0 or r.index >= len(items))
InRange(index, n) == ~(index < 0 \/ index >= n)

\* line 138: items[r.index], Python indexing (a negative index counts from
\* the end)
ItemAt(its, index) ==
    IF index >= 0 THEN its[index + 1] ELSE its[Len(its) + index + 1]

\* lines 138-143: dict(items[r.index]) with score replaced by float(r.score)
Rescored(it, r) == [it EXCEPT !.score = r.score]

GatewayIdle ==
    /\ g_pc = "idle"
    /\ payload = NoPayload
    /\ g_rerank = "none"
    /\ resp_results = <<>>
    /\ g_i = 0
    /\ ordered = <<>>
    /\ g_status = 0

\* line 118: a request arrives
GatewayInit ==
    /\ g_pc = "start"
    /\ payload \in Payloads
    /\ g_rerank = "none"
    /\ resp_results = <<>>
    /\ g_i = 0
    /\ ordered = <<>>
    /\ g_status = 0

\* line 121: not query or len(items) == 0
GatewayInvalid(pl) == pl.query = "" \/ Len(pl.items) = 0

\* lines 120-122: HTTP 400
GatewayReject ==
    /\ g_pc = "start"
    /\ GatewayInvalid(payload)
    /\ g_status' = 400
    /\ g_pc' = "responded"
    /\ UNCHANGED <<payload, g_rerank, resp_results, g_i, ordered>>
    /\ UNCHANGED otherThanGateway

\* lines 123-132: docs are built and _rerank is called
GatewayCallRerank ==
    /\ g_pc = "start"
    /\ ~GatewayInvalid(payload)
    /\ g_pc' = "reranking"
    /\ UNCHANGED <<payload, g_rerank, resp_results, g_i, ordered, g_status>>
    /\ UNCHANGED otherThanGateway

\* lines 132 and 146-147: _rerank raises an HTTPException, which is raised
\* again; with a blank query it is the 400 of rerank.py line 156
GatewayRerankRaises ==
    /\ g_pc = "reranking"
    /\ g_rerank' = "raised"
    /\ \E st \in {400, 502} \cup UpstreamStatuses :
          /\ Strip(payload.query) = "" => st = 400
          /\ g_status' = st
    /\ g_pc' = "responded"
    /\ UNCHANGED <<payload, resp_results, g_i, ordered>>
    /\ UNCHANGED otherThanGateway

\* line 132: _rerank returns a response (rerank.py line 155: never for a
\* blank query)
GatewayRerankReturns ==
    /\ g_pc = "reranking"
    /\ Strip(payload.query) # ""
    /\ g_rerank' = "returned"
    /\ resp_results' \in SeqsUpTo(RerankResults, MaxResults)
    /\ g_pc' = "mapping"
    /\ UNCHANGED <<payload, g_i, ordered, g_status>>
    /\ UNCHANGED otherThanGateway

\* lines 135-137: a result whose index is out of range is passed over
GatewaySkip ==
    /\ g_pc = "mapping"
    /\ g_i < Len(resp_results)
    /\ ~InRange(resp_results[g_i + 1].index, Len(payload.items))
    /\ g_i' = g_i + 1
    /\ UNCHANGED <<g_pc, payload, g_rerank, resp_results, ordered, g_status>>
    /\ UNCHANGED otherThanGateway

\* lines 135-143: a copy of the item at the result's index, with the
\* result's score, is appended
GatewayMap ==
    /\ g_pc = "mapping"
    /\ g_i < Len(resp_results)
    /\ LET r == resp_results[g_i + 1]
       IN /\ InRange(r.index, Len(payload.items))
          /\ ItemAt(payload.items, r.index).obj
          /\ ordered' = Append(ordered, Rescored(ItemAt(payload.items, r.index), r))
    /\ g_i' = g_i + 1
    /\ UNCHANGED <<g_pc, payload, g_rerank, resp_results, g_status>>
    /\ UNCHANGED otherThanGateway

\* lines 138 and 148-150: dict(...) of an item that is no object raises,
\* HTTP 500
GatewayCopyRaises ==
    /\ g_pc = "mapping"
    /\ g_i < Len(resp_results)
    /\ LET r == resp_results[g_i + 1]
       IN /\ InRange(r.index, Len(payload.items))
          /\ ~ItemAt(payload.items, r.index).obj
    /\ g_status' = 500
    /\ g_pc' = "responded"
    /\ UNCHANGED <<payload, g_rerank, resp_results, g_i, ordered>>
    /\ UNCHANGED otherThanGateway

\* line 145: return {"items": ordered}
GatewayReturn ==
    /\ g_pc = "mapping"
    /\ g_i = Len(resp_results)
    /\ g_status' = 200
    /\ g_pc' = "responded"
    /\ UNCHANGED <<payload, g_rerank, resp_results, g_i, ordered>>
    /\ UNCHANGED otherThanGateway

GatewayNext ==
    \/ GatewayReject
    \/ GatewayCallRerank
    \/ GatewayRerankRaises
    \/ GatewayRerankReturns
    \/ GatewaySkip
    \/ GatewayMap
    \/ GatewayCopyRaises
    \/ GatewayReturn

(***************************************************************************)
(* The two cosine functions: rerank.py _cosine_sim, search.py              *)
(* _cosine_similarity.  A call yields an outcome [raised, val]; val is in  *)
(* units of 1/CosUnit.                                                     *)
(***************************************************************************)
Returned(v) == [raised |-> FALSE, val |-> v]
ZeroDivisionError == [raised |-> TRUE, val |-> 0]
NotCalled == [raised |-> FALSE, val |-> -CosUnit - 1]

\* Python's float division: raises on a zero divisor
Divide(n, d) == IF d = 0 THEN ZeroDivisionError ELSE Returned(n \div d)

\* rerank.py 29-46
cosine_sim_call(a, b) ==
    IF a = <<>> \/ b = <<>> THEN Returned(0)
    ELSE IF Len(a) # Len(b) THEN Returned(0)
    ELSE LET dot == Dot(a, b)
             na == Dot(a, a)
             nb == Dot(b, b)
         IN IF na = 0 \/ nb = 0 THEN Returned(0)
            ELSE Divide(dot * CosUnit, Sqrt(na) * Sqrt(nb))

\* search.py 24: sum(x * y for x, y in zip(a, b)); zip stops at the shorter
ZipDot(a, b) ==
    LET n == IF Len(a) < Len(b) THEN Len(a) ELSE Len(b)
    IN SumSeq([i \in 1..n |-> a[i] * b[i]])

\* Mutant of cosine_similarity: the zero-norm test of line 27 is dropped
cosine_similarity_NoNormCheck(a, b) ==
    IF a = <<>> \/ b = <<>> \/ Len(a) # Len(b) THEN Returned(0)
    ELSE Divide(ZipDot(a, b) * CosUnit, Sqrt(ZipDot(a, a)) * Sqrt(ZipDot(b, b)))

\* search.py 20-29
cosine_similarity(a, b) ==
    IF a = <<>> \/ b = <<>> \/ Len(a) # Len(b) THEN Returned(0)
    ELSE LET dot == ZipDot(a, b)
             na == Sqrt(ZipDot(a, a))
             nb == Sqrt(ZipDot(b, b))
         IN IF na = 0 \/ nb = 0 THEN Returned(0)
            ELSE Divide(dot * CosUnit, na * nb)

\* argument vectors: empty, zero, of lengths 1..3, every norm 0 or 5
CosVecs == {<<>>, <<0>>, <<5>>, <<0, 0>>, <<5, 0>>, <<4, 3>>, <<3, -4>>,
            <<-5, 0>>, <<0, 0, 0>>, <<3, 0, 4>>}

CosineIdle ==
    /\ c_pc = "idle"
    /\ c_a = <<>>
    /\ c_b = <<>>
    /\ c_called = {}
    /\ c_sim = NotCalled
    /\ c_similarity = NotCalled

CosineInit ==
    /\ c_pc = "ready"
    /\ c_a \in CosVecs
    /\ c_b \in CosVecs
    /\ c_called = {}
    /\ c_sim = NotCalled
    /\ c_similarity = NotCalled

CosineSimCall ==
    /\ c_pc = "ready"
    /\ "_cosine_sim" \notin c_called
    /\ c_called' = c_called \cup {"_cosine_sim"}
    /\ c_sim' = cosine_sim_call(c_a, c_b)
    /\ UNCHANGED <<c_pc, c_a, c_b, c_similarity>>
    /\ UNCHANGED otherThanCosine

CosineSimilarityCall ==
    /\ c_pc = "ready"
    /\ "_cosine_similarity" \notin c_called
    /\ c_called' = c_called \cup {"_cosine_similarity"}
    /\ c_similarity' = cosine_similarity(c_a, c_b)
    /\ UNCHANGED <<c_pc, c_a, c_b, c_sim>>
    /\ UNCHANGED otherThanCosine

CosineNext ==
    \/ CosineSimCall
    \/ CosineSimilarityCall

(***************************************************************************)
(* auth-service services/auth.py: AuthService.verify_token                 *)
(***************************************************************************)
\* request.token is None (or empty): both are falsy at lines 61 and 62
NoToken == ""
\* authorization is None (or empty): falsy at line 41
NoHeader == <<>>
NoUser == ""

\* JWTs, named by what jwt.decode makes of them (lines 50-58)
GoodTokens == {"alice", "bob"}
Tokens == GoodTokens \cup {"expired", "forged"}
\* Authorization headers, split after the seventh character
Headers ==
    {NoHeader} \cup {<<"Bearer ", t>> : t \in Tokens \cup {NoToken}}
        \cup {<<"bearer ", "alice">>, <<"Invalid", " token">>,
              <<"Basic a", "lice">>, <<"Bearer", "">>}

\* lines 38-45
extract_token_from_header(h) ==
    IF h = NoHeader THEN NoToken
    ELSE IF h[1] # "Bearer " THEN NoToken
    ELSE h[2]

\* lines 47-58: the error code jwt.decode's failure is turned into, "" if none
DecodeError(t) ==
    IF t \in GoodTokens THEN ""
    ELSE IF t = "expired" THEN "TOKEN_EXPIRED"
    ELSE "INVALID_TOKEN"

\* payload.get("sub")
SubOf(t) == t

VerifyResponse(valid, user) ==
    [raised |-> FALSE, code |-> "", valid |-> valid, user_id |-> user]
AuthenticationError(code) ==
    [raised |-> TRUE, code |-> code, valid |-> FALSE, user_id |-> NoUser]
NoResult == [raised |-> FALSE, code |-> "none", valid |-> FALSE, user_id |-> NoUser]

\* exceptions/handlers.py 96-105 and the /auth/verify route (routers/auth.py 88-94)
HttpStatus(r) == IF r.raised THEN 401 ELSE 200

AuthIdle ==
    /\ a_pc = "idle"
    /\ request_token = NoToken
    /\ authorization = NoHeader
    /\ token = NoToken
    /\ a_result = NoResult

AuthInit ==
    /\ a_pc = "call"
    /\ request_token \in Tokens \cup {NoToken}
    /\ authorization \in Headers
    /\ token = NoToken
    /\ a_result = NoResult

\* line 61: token = request.token or extract_token_from_header(authorization)
AuthPickToken ==
    /\ a_pc = "call"
    /\ token' = IF request_token # NoToken THEN request_token
                ELSE extract_token_from_header(authorization)
    /\ a_pc' = "picked"
    /\ UNCHANGED <<request_token, authorization, a_result>>
    /\ UNCHANGED otherThanAuth

\* lines 62-63: if not token: return VerifyResponse(valid=False)
AuthNoToken ==
    /\ a_pc = "picked"
    /\ token = NoToken
    /\ a_result' = VerifyResponse(FALSE, NoUser)
    /\ a_pc' = "returned"
    /\ UNCHANGED <<request_token, authorization, token>>
    /\ UNCHANGED otherThanAuth

\* lines 65-69: the token decodes
AuthVerified ==
    /\ a_pc = "picked"
    /\ token # NoToken
    /\ DecodeError(token) = ""
    /\ a_result' = VerifyResponse(TRUE, SubOf(token))
    /\ a_pc' = "returned"
    /\ UNCHANGED <<request_token, authorization, token>>
    /\ UNCHANGED otherThanAuth

\* lines 70-71: except AuthenticationError: return VerifyResponse(valid=False)
AuthDecodeFails ==
    /\ a_pc = "picked"
    /\ token # NoToken
    /\ DecodeError(token) # ""
    /\ a_result' = VerifyResponse(FALSE, NoUser)
    /\ a_pc' = "returned"
    /\ UNCHANGED <<request_token, authorization, token>>
    /\ UNCHANGED otherThanAuth

AuthNext ==
    \/ AuthPickToken
    \/ AuthNoToken
    \/ AuthVerified
    \/ AuthDecodeFails

(***************************************************************************)
(* auth-service middleware/rate_limit.py: RateLimitMiddleware and          *)
(* GlobalRateLimitMiddleware, for one client id and one path               *)
(***************************************************************************)
\* seconds of the clock, and requests per second
MaxTime == 3
MaxPerSecond == 2
\* endpoint_limits (lines 50-56), e.g. 5 requests per 60 s, here 2 per 2 s
LimitRequests == 2
Window == 2
\* requests_per_minute (line 185, set from settings.global_rate_limit), per
\* 60 s, here 2 per 2 s.  The sorted set holds one member per second, so the
\* count can reach the limit only where the limit is at most the window.
GlobalRequests == 2
\* lines 158, 231: the key outlives the window by 10 s, here by 1 s
ExpireSlack == 1
NoTtl == -1

Times == 0..MaxTime
Limiters == {"RateLimit", "Global"}
LimitOf(mw) == IF mw = "RateLimit" THEN LimitRequests ELSE GlobalRequests

\* lines 149, 228: pipe.zremrangebyscore(key, 0, window_start)
InWindow(z, t) == {m \in z : m > t - Window}
\* lines 152, 229: pipe.zcard(key), queued after the removal
ZCard(z, t) == Cardinality(InWindow(z, t))
\* lines 155, 230: pipe.zadd(key, {str(current_time): current_time}); a member
\* already present only has its score set again
AfterPipeline(z, t) == InWindow(z, t) \cup {t}
\* line 167: redis_client.zrem(key, str(current_time))
ZRem(z, t) == z \ {t}

\* Mutant of OnException: a failed check rejects the request
OnException_Rejects(mw) == FALSE

\* lines 176-179 and 238-240: is_allowed when the check raised
OnException(mw) == TRUE

\* lines 81-104, 202-210: HTTPException(429) or call_next(request)
Dispatch(is_allowed) == IF is_allowed THEN 200 ELSE 429

NoRequestYet == [mw |-> "none", failure |-> "none", status |-> 0]

RateLimitIdle ==
    /\ rl_pc = "idle"
    /\ now = 0
    /\ redis_client = "None"
    /\ zsets = [mw \in Limiters |-> {}]
    /\ ttl = [mw \in Limiters |-> NoTtl]
    /\ rl_served = 0
    /\ passed_at = [t \in Times |-> 0]
    /\ rl_failed = FALSE
    /\ rl_last = NoRequestYet

RateLimitInit ==
    /\ rl_pc = "serving"
    /\ now = 0
    /\ redis_client = "None"
    /\ zsets = [mw \in Limiters |-> {}]
    /\ ttl = [mw \in Limiters |-> NoTtl]
    /\ rl_served = 0
    /\ passed_at = [t \in Times |-> 0]
    /\ rl_failed = FALSE
    /\ rl_last = NoRequestYet

Arrives ==
    /\ rl_pc = "serving"
    /\ rl_served < MaxPerSecond
    /\ rl_served' = rl_served + 1
    /\ UNCHANGED <<rl_pc, now>>
    /\ UNCHANGED otherThanRateLimit

Passed(mw) ==
    IF mw = "RateLimit"
    THEN passed_at' = [passed_at EXCEPT ![now] = @ + 1]
    ELSE UNCHANGED passed_at

\* the clock moves to the next second; a key whose time is up is dropped
Tick ==
    /\ rl_pc = "serving"
    /\ now < MaxTime
    /\ now' = now + 1
    /\ rl_served' = 0
    /\ zsets' = [mw \in Limiters |->
                    IF ttl[mw] # NoTtl /\ ttl[mw] <= now + 1 THEN {} ELSE zsets[mw]]
    /\ ttl' = [mw \in Limiters |->
                    IF ttl[mw] # NoTtl /\ ttl[mw] <= now + 1 THEN NoTtl ELSE ttl[mw]]
    /\ UNCHANGED <<rl_pc, redis_client, passed_at, rl_failed, rl_last>>
    /\ UNCHANGED otherThanRateLimit

\* lines 17-38, 60-62, 190-192: no client yet and the connection or the ping
\* fails; get_redis_client returns None and the request goes to call_next
LimiterNoRedis ==
    \E mw \in Limiters :
        /\ Arrives
        /\ redis_client = "None"
        /\ rl_failed' = TRUE
        /\ rl_last' = [mw |-> mw, failure |-> "no_client", status |-> Dispatch(TRUE)]
        /\ Passed(mw)
        /\ UNCHANGED <<redis_client, zsets, ttl>>

\* lines 65-67, 195-197: a request without client id is passed on unchecked;
\* it is no request of the client whose key is modelled
LimiterNoClientId ==
    \E mw \in Limiters :
        /\ Arrives
        /\ redis_client' = "client"
        /\ rl_last' = [mw |-> mw, failure |-> "none", status |-> Dispatch(TRUE)]
        /\ UNCHANGED <<zsets, ttl, passed_at, rl_failed>>

\* lines 134-174, 221-236: the pipeline runs and the count is below the limit
LimiterAllow ==
    \E mw \in Limiters :
        /\ Arrives
        /\ redis_client' = "client"
        /\ ZCard(zsets[mw], now) < LimitOf(mw)
        /\ zsets' = [zsets EXCEPT ![mw] = AfterPipeline(@, now)]
        /\ ttl' = [ttl EXCEPT ![mw] = now + Window + ExpireSlack]
        /\ rl_last' = [mw |-> mw, failure |-> "none", status |-> Dispatch(TRUE)]
        /\ Passed(mw)
        /\ UNCHANGED rl_failed

\* lines 165-168: the count has reached the limit; the member just added is
\* removed again and the request is answered 429
RateLimitReject ==
    /\ Arrives
    /\ redis_client' = "client"
    /\ ZCard(zsets["RateLimit"], now) >= LimitOf("RateLimit")
    /\ zsets' = [zsets EXCEPT !["RateLimit"] = ZRem(AfterPipeline(@, now), now)]
    /\ ttl' = [ttl EXCEPT !["RateLimit"] = now + Window + ExpireSlack]
    /\ rl_last' = [mw |-> "RateLimit", failure |-> "none", status |-> Dispatch(FALSE)]
    /\ UNCHANGED <<passed_at, rl_failed>>

\* lines 233-236, 202-208: the global limiter keeps the member it added
GlobalReject ==
    /\ Arrives
    /\ redis_client' = "client"
    /\ ~(ZCard(zsets["Global"], now) < LimitOf("Global"))
    /\ zsets' = [zsets EXCEPT !["Global"] = AfterPipeline(@, now)]
    /\ ttl' = [ttl EXCEPT !["Global"] = now + Window + ExpireSlack]
    /\ rl_last' = [mw |-> "Global", failure |-> "none", status |-> Dispatch(FALSE)]
    /\ UNCHANGED <<passed_at, rl_failed>>

\* lines 143-161 / 227-233 raise (connection lost, timeout): the transaction
\* was either not applied or applied with its reply lost; the except clause
\* decides
LimiterExecuteRaises ==
    \E mw \in Limiters, applied \in BOOLEAN :
        /\ Arrives
        /\ redis_client' = "client"
        /\ zsets' = [zsets EXCEPT ![mw] = IF applied THEN AfterPipeline(@, now) ELSE @]
        /\ ttl' = [ttl EXCEPT ![mw] = IF applied THEN now + Window + ExpireSlack ELSE @]
        /\ rl_failed' = TRUE
        /\ rl_last' = [mw |-> mw, failure |-> "execute",
                       status |-> Dispatch(OnException(mw))]
        /\ IF OnException(mw) THEN Passed(mw) ELSE UNCHANGED passed_at

\* line 167 raises: the limit was reached, the removal fails (applied or not),
\* and the except clause decides
RateLimitZremRaises ==
    \E applied \in BOOLEAN :
        /\ Arrives
        /\ redis_client' = "client"
        /\ ZCard(zsets["RateLimit"], now) >= LimitOf("RateLimit")
        /\ zsets' = [zsets EXCEPT !["RateLimit"] =
                        IF applied THEN ZRem(AfterPipeline(@, now), now)
                        ELSE AfterPipeline(@, now)]
        /\ ttl' = [ttl EXCEPT !["RateLimit"] = now + Window + ExpireSlack]
        /\ rl_failed' = TRUE
        /\ rl_last' = [mw |-> "RateLimit", failure |-> "zrem",
                       status |-> Dispatch(OnException("RateLimit"))]
        /\ IF OnException("RateLimit") THEN Passed("RateLimit")
           ELSE UNCHANGED passed_at

RateLimitNext ==
    \/ Tick
    \/ LimiterNoRedis
    \/ LimiterNoClientId
    \/ LimiterAllow
    \/ RateLimitReject
    \/ GlobalReject
    \/ LimiterExecuteRaises
    \/ RateLimitZremRaises

(***************************************************************************)
(* todo-service service.py: the operations that write todos and their      *)
(* attributes.  Each call runs in its own session; what it leaves in the   *)
(* tables is what it committed, and a rollback leaves them as they were.   *)
(***************************************************************************)
MaxTodos == 2
MaxAttrs == 3
TodoIds == 1..MaxTodos
AttrIds == 1..MaxAttrs
\* db.py 64-66: attribute_id is nullable
Null == 0
\* db.py 81, 95: mergency, an integer >= 0
Mergencies == {0, 1}

Without(f, x) == [y \in DOMAIN f \ {x} |-> f[y]]
With(f, x, v) == [y \in DOMAIN f \cup {x} |-> IF y = x THEN v ELSE f[y]]

\* lines 24-30: fetch_todo_by_id finds the row
TodoExists(id) == id \in DOMAIN todos

\* lines 42-51: create_attribute_entity, the new row under a fresh id
create_attribute_entity(attrs, a, mergency) == With(attrs, a, mergency)

\* Mutant of delete_attribute_entity: the attribute row is kept
delete_attribute_entity_Kept(attrs, a) == attrs

\* lines 65-67: delete_attribute_entity
delete_attribute_entity(attrs, a) == Without(attrs, a)

\* lines 70-72: attach_attribute_to_todo
attach_attribute_to_todo(ts, id, a) == [ts EXCEPT ![id] = a]

\* lines 75-77: detach_attribute_from_todo
detach_attribute_from_todo(ts, id) == [ts EXCEPT ![id] = Null]

WriteOps == {"create_todo", "delete_todo", "create_attributes",
             "update_attributes", "delete_attributes"}
Called(op, id, status) ==
    t_last' = [op |-> op, todo_id |-> id, status |-> status,
               todos |-> todos, todo_attributes |-> todo_attributes]
NoCall == [op |-> "none", todo_id |-> 0, status |-> 0,
           todos |-> <<>>, todo_attributes |-> <<>>]

TodoIdle ==
    /\ t_pc = "idle"
    /\ todos = <<>>
    /\ todo_attributes = <<>>
    /\ t_last = NoCall

TodoInit ==
    /\ t_pc = "serving"
    /\ todos = <<>>
    /\ todo_attributes = <<>>
    /\ t_last = NoCall

\* lines 83-100, payload.attributes is None
CreateTodo ==
    /\ t_pc = "serving"
    /\ \E id \in TodoIds \ DOMAIN todos :
        /\ todos' = With(todos, id, Null)
        /\ Called("create_todo", id, 201)
    /\ UNCHANGED <<t_pc, todo_attributes>>
    /\ UNCHANGED otherThanTodo

\* lines 83-100, with payload.attributes: the todo row, the attribute row,
\* the reference, one commit
CreateTodoWithAttributes ==
    /\ t_pc = "serving"
    /\ \E id \in TodoIds \ DOMAIN todos,
          a \in AttrIds \ DOMAIN todo_attributes, mg \in Mergencies :
        /\ todo_attributes' = create_attribute_entity(todo_attributes, a, mg)
        /\ todos' = attach_attribute_to_todo(With(todos, id, Null), id, a)
        /\ Called("create_todo", id, 201)
    /\ UNCHANGED t_pc
    /\ UNCHANGED otherThanTodo

\* lines 157-164
DeleteTodo ==
    /\ t_pc = "serving"
    /\ \E id \in TodoIds :
        /\ TodoExists(id)
        /\ IF todos[id] # Null /\ todos[id] \notin DOMAIN todo_attributes
           THEN \* line 159: fetch_attribute_by_id raises 404, nothing written
                /\ Called("delete_todo", id, 404)
                /\ UNCHANGED <<todos, todo_attributes>>
           ELSE /\ todo_attributes' =
                    IF todos[id] # Null
                    THEN delete_attribute_entity(todo_attributes, todos[id])
                    ELSE todo_attributes
                /\ todos' = Without(todos, id)
                /\ Called("delete_todo", id, 204)
    /\ UNCHANGED t_pc
    /\ UNCHANGED otherThanTodo

\* lines 190-197: the todo has no attribute yet
CreateAttributes ==
    /\ t_pc = "serving"
    /\ \E id \in TodoIds, a \in AttrIds \ DOMAIN todo_attributes,
          mg \in Mergencies :
        /\ TodoExists(id)
        /\ todos[id] = Null
        /\ todo_attributes' = create_attribute_entity(todo_attributes, a, mg)
        /\ todos' = attach_attribute_to_todo(todos, id, a)
        /\ Called("create_attributes", id, 201)
    /\ UNCHANGED t_pc
    /\ UNCHANGED otherThanTodo

\* lines 191-192 and 198-199: if todo.attribute_id: raise HTTPException(400)
CreateAttributesExists ==
    /\ t_pc = "serving"
    /\ \E id \in TodoIds :
        /\ TodoExists(id)
        /\ todos[id] # Null
        /\ Called("create_attributes", id, 400)
    /\ UNCHANGED <<t_pc, todos, todo_attributes>>
    /\ UNCHANGED otherThanTodo

\* lines 208-215
UpdateAttributes ==
    /\ t_pc = "serving"
    /\ \E id \in TodoIds, mg \in Mergencies :
        /\ TodoExists(id)
        /\ todos[id] # Null
        /\ todos[id] \in DOMAIN todo_attributes
        /\ todo_attributes' = [todo_attributes EXCEPT ![todos[id]] = mg]
        /\ Called("update_attributes", id, 200)
    /\ UNCHANGED <<t_pc, todos>>
    /\ UNCHANGED otherThanTodo

\* lines 226-233
DeleteAttributes ==
    /\ t_pc = "serving"
    /\ \E id \in TodoIds :
        /\ TodoExists(id)
        /\ todos[id] # Null
        /\ todos[id] \in DOMAIN todo_attributes
        /\ todos' = detach_attribute_from_todo(todos, id)
        /\ todo_attributes' = delete_attribute_entity(todo_attributes, todos[id])
        /\ Called("delete_attributes", id, 204)
    /\ UNCHANGED t_pc
    /\ UNCHANGED otherThanTodo

\* lines 209-210, 227-228: the todo has no attribute, 404
AttributeNotFound ==
    /\ t_pc = "serving"
    /\ \E id \in TodoIds, op \in {"update_attributes", "delete_attributes"} :
        /\ TodoExists(id)
        /\ todos[id] = Null
        /\ Called(op, id, 404)
    /\ UNCHANGED <<t_pc, todos, todo_attributes>>
    /\ UNCHANGED otherThanTodo

\* lines 28-29: fetch_todo_by_id raises 404
TodoNotFound ==
    /\ t_pc = "serving"
    /\ \E id \in TodoIds, op \in WriteOps \ {"create_todo"} :
        /\ ~TodoExists(id)
        /\ Called(op, id, 404)
    /\ UNCHANGED <<t_pc, todos, todo_attributes>>
    /\ UNCHANGED otherThanTodo

\* the except Exception clauses (101-103, 167-169, 200-202, 218-220, 236-238):
\* a statement or the commit fails, the session is rolled back, 500
TodoRollback ==
    /\ t_pc = "serving"
    /\ \E id \in TodoIds, op \in WriteOps :
        /\ op # "create_todo" => TodoExists(id)
        /\ Called(op, id, 500)
    /\ UNCHANGED <<t_pc, todos, todo_attributes>>
    /\ UNCHANGED otherThanTodo

TodoNext ==
    \/ CreateTodo
    \/ CreateTodoWithAttributes
    \/ DeleteTodo
    \/ CreateAttributes
    \/ CreateAttributesExists
    \/ UpdateAttributes
    \/ DeleteAttributes
    \/ AttributeNotFound
    \/ TodoNotFound
    \/ TodoRollback

(***************************************************************************)
(* Specifications                                                          *)
(***************************************************************************)
InitMmr == MmrInit /\ SearchIdle /\ RerankIdle /\ GatewayIdle /\
    CosineIdle /\ AuthIdle /\ RateLimitIdle /\ TodoIdle
SpecMmr == InitMmr /\ [][MmrNext]_vars

InitSearch == SearchInit /\ MmrIdle /\ RerankIdle /\ GatewayIdle /\
    CosineIdle /\ AuthIdle /\ RateLimitIdle /\ TodoIdle
SpecSearch == InitSearch /\ [][SearchNext]_vars

InitRerank == RerankInit /\ MmrIdle /\ SearchIdle /\ GatewayIdle /\
    CosineIdle /\ AuthIdle /\ RateLimitIdle /\ TodoIdle
SpecRerank == InitRerank /\ [][RerankNext]_vars

InitRerankRequest == RerankRequestInit /\ MmrIdle /\ SearchIdle /\
    GatewayIdle /\ CosineIdle /\ AuthIdle /\ RateLimitIdle /\ TodoIdle
SpecRerankRequest == InitRerankRequest /\ [][RerankRequestNext]_vars

InitGateway == GatewayInit /\ MmrIdle /\ SearchIdle /\ RerankIdle /\
    CosineIdle /\ AuthIdle /\ RateLimitIdle /\ TodoIdle
SpecGateway == InitGateway /\ [][GatewayNext]_vars

InitCosine == CosineInit /\ MmrIdle /\ SearchIdle /\ RerankIdle /\
    GatewayIdle /\ AuthIdle /\ RateLimitIdle /\ TodoIdle
SpecCosine == InitCosine /\ [][CosineNext]_vars

InitAuth == AuthInit /\ MmrIdle /\ SearchIdle /\ RerankIdle /\ GatewayIdle /\
    CosineIdle /\ RateLimitIdle /\ TodoIdle
SpecAuth == InitAuth /\ [][AuthNext]_vars

InitRateLimit == RateLimitInit /\ MmrIdle /\ SearchIdle /\ RerankIdle /\
    GatewayIdle /\ CosineIdle /\ AuthIdle /\ TodoIdle
SpecRateLimit == InitRateLimit /\ [][RateLimitNext]_vars

InitTodo == TodoInit /\ MmrIdle /\ SearchIdle /\ RerankIdle /\ GatewayIdle /\
    CosineIdle /\ AuthIdle /\ RateLimitIdle
SpecTodo == InitTodo /\ [][TodoNext]_vars


(***************************************************************************)
(* Properties of _mmr_rank (checked under SpecMmr)                         *)
(***************************************************************************)
NDocs == Len(doc_vecs)
\* the candidates already selected before selection step t, and those left
SelectedBefore(t) == SubSeq(selected, 1, t - 1)
RemainingAt(t) == (0..(NDocs - 1)) \ Range(SelectedBefore(t))

\* the score of the claim: lam * rel[i] - (1 - lam) * max cosine to the
\* selected ones, penalty 0 when nothing is selected yet
ClaimPenalty(i, sel) ==
    IF sel = <<>> THEN 0
    ELSE MaxOf({cosine_sim(doc_vecs[i + 1], doc_vecs[sel[j] + 1]) : j \in 1..Len(sel)})
ClaimRel(i) == cosine_sim(query_vec, doc_vecs[i + 1])
ClaimScore(i, sel) == lam * ClaimRel(i) - (LamUnit - lam) * ClaimPenalty(i, sel)

\* C1: at every selection step the chosen candidate has the maximal
\* mmr_score among the remaining candidates, and the score recorded for it is
\* that mmr_score as computed at the step it was selected.
C1_ArgmaxAndRecordedScore ==
    \A t \in 1..Len(results) :
        /\ results[t].index = selected[t]
        /\ results[t].index \in RemainingAt(t)
        /\ results[t].score = ClaimScore(results[t].index, SelectedBefore(t))
        /\ \A i \in RemainingAt(t) :
              ClaimScore(i, SelectedBefore(t)) <= results[t].score

\* C1 witness: a finished call with lam = 0.7 in which the diversity penalty
\* decided the second step: the candidate picked second is not the one of
\* highest relevance among those left.
C1_Witness ==
    /\ m_pc = "returned"
    /\ lam = 7
    /\ Len(results) >= 2
    /\ \E i \in RemainingAt(2) :
          /\ ClaimRel(i) > ClaimRel(results[2].index)
          /\ ClaimPenalty(i, SelectedBefore(2)) > 0

MinOf2(a, b) == IF a < b THEN a ELSE b

\* C3: the returned indexes are pairwise distinct and in 0..n-1, there are
\* at most min(k, n) of them, and k <= 0 returns the empty list.
C3_DistinctInRangeAtMostK ==
    m_pc = "returned" =>
        /\ \A s, t \in 1..Len(results) : results[s].index = results[t].index => s = t
        /\ \A t \in 1..Len(results) : results[t].index \in 0..(NDocs - 1)
        /\ k_in <= 0 => results = <<>>
        /\ k_in > 0 => Len(results) <= MinOf2(k_in, NDocs)

\* C3 witness: a finished call with k > n >= 2 that returned n results.
C3_Witness ==
    /\ m_pc = "returned"
    /\ k_in > NDocs
    /\ NDocs >= 2
    /\ Len(results) = NDocs

\* position of index i in a stable sort of the inputs by descending relevance
RelRank(i) ==
    Cardinality({j \in 0..(NDocs - 1) :
                    \/ ClaimRel(j) > ClaimRel(i)
                    \/ (ClaimRel(j) = ClaimRel(i) /\ j < i)})

\* C4: with lam = 1.0 the result is the stable sort of the inputs by
\* descending rel, truncated to min(k, n), each with its rel as score.
C4_LamOneIsRelevanceOrder ==
    (m_pc = "returned" /\ lam = LamUnit /\ k_in > 0) =>
        /\ Len(results) = MinOf2(k_in, NDocs)
        /\ \A t \in 1..Len(results) : RelRank(results[t].index) = t - 1

\* C4 witness: a finished call with lam = 1.0 whose inputs have two equally
\* relevant documents and are not already in descending relevance order.
C4_Witness ==
    /\ m_pc = "returned"
    /\ lam = LamUnit
    /\ Len(results) >= 3
    /\ \E i, j \in 0..(NDocs - 1) : i < j /\ ClaimRel(i) < ClaimRel(j)
    /\ \E s, t \in 1..Len(results) :
          s # t /\ ClaimRel(results[s].index) = ClaimRel(results[t].index)


(***************************************************************************)
(* Properties of the merge step of search (checked under SpecSearch)       *)
(***************************************************************************)
\* the list the merge loop walks: kw_items + vec_items
MergeInput == kw_items \o vec_items
IdsOf(list) == {list[i].id : i \in 1..Len(list)}
ScoresOf(list, id) == {list[i].score : i \in {j \in 1..Len(list) : list[j].id = id}}
EntriesOf(list, id) == {i \in 1..Len(list) : list[i].id = id}

\* C5: after the merge, every id of the keyword or vector results has
\* exactly one item in the merged set, carrying the maximum score over all
\* keyword-path and vector-path items with that id (and no other id occurs).
C5_OnePerIdWithMaxScore ==
    s_pc = "merged" =>
        /\ IdsOf(items) = IdsOf(kw_items) \cup IdsOf(vec_items)
        /\ \A id \in IdsOf(MergeInput) :
              /\ Cardinality(EntriesOf(items, id)) = 1
              /\ ScoresOf(items, id) = {MaxOf(ScoresOf(MergeInput, id))}

\* C5 witness: the claim's example, an id found by keyword (0.5) and by
\* vector at distance 0.2, merged to the vector-path score 1/1.2.
C5_Witness ==
    /\ s_pc = "merged"
    /\ \E id \in IdsOf(kw_items) \cap IdsOf(vec_items) :
          /\ db_docs[id].dist = 2
          /\ ScoresOf(items, id) = {VecScore(2)}
          /\ VecScore(2) > KwScore

\* ids found on both paths with exactly equal scores
TiedIds ==
    {id \in IdsOf(kw_items) \cap IdsOf(vec_items) :
        ScoresOf(kw_items, id) = ScoresOf(vec_items, id)}

\* C6: for an id found on both paths with equal scores the merged set keeps
\* the keyword-path copy, and the keyword list is the keyword query's result
\* whichever query finished first.
C6_TieKeepsKeywordCopy ==
    s_pc = "merged" =>
        /\ res_kw = kw_task.rows
        /\ res_vec = vec_task.rows
        /\ \A id \in TiedIds :
              \A i \in EntriesOf(items, id) : items[i].path = "kw"

\* C6 witness: a tie was merged in a request whose vector query finished
\* before its keyword query.
C6_Witness ==
    /\ s_pc = "merged"
    /\ TiedIds # {}
    /\ done_order = <<"vec", "kw">>

\* the ids of a list in the order of their first occurrence
RECURSIVE FirstSeen(_, _)
FirstSeen(list, seen) ==
    IF list = <<>> THEN <<>>
    ELSE IF Head(list).id \in seen
         THEN FirstSeen(Tail(list), seen)
         ELSE <<Head(list).id>> \o FirstSeen(Tail(list), seen \cup {Head(list).id})

IdSeq(list) == [i \in 1..Len(list) |-> list[i].id]

\* C7: during and after the merge the merged list is in the order in which
\* the ids were first seen walking keyword results then vector results.
C7_FirstSeenOrder ==
    /\ s_pc = "merging" => IdSeq(merged) = FirstSeen(SubSeq(MergeInput, 1, merge_i), {})
    /\ s_pc = "merged" => IdSeq(items) = FirstSeen(MergeInput, {})

\* C7 witness: a merged list in which an entry that is not the last one was
\* replaced by its higher-scored vector duplicate, and which is not in
\* descending score order.
C7_Witness ==
    /\ s_pc = "merged"
    /\ \E i \in 1..(Len(items) - 1) :
          /\ items[i].path = "vec"
          /\ items[i].id \in IdsOf(kw_items)
    /\ \E i, j \in 1..Len(items) : i < j /\ items[i].score < items[j].score

\* C8: merging a list concatenated with itself gives the same ids, order and
\* kept items as merging it once (for the list of the request, in both
\* orders of its two halves).
C8_MergeIdempotent ==
    s_pc = "merged" =>
        /\ MergeAll(MergeInput \o MergeInput) = items
        /\ MergeAll((vec_items \o kw_items) \o (vec_items \o kw_items))
             = MergeAll(vec_items \o kw_items)

\* C8 witness: a merged list of at least two ids one of which came in twice
\* with different scores.
C8_Witness ==
    /\ s_pc = "merged"
    /\ Len(items) >= 2
    /\ \E id \in IdsOf(MergeInput) : Cardinality(ScoresOf(MergeInput, id)) = 2


(***************************************************************************)
(* Properties of _extract_json_array and of the prompt path of rerank      *)
(* (checked under SpecRerank)                                              *)
(***************************************************************************)
CleanedOf(text) == RemoveThink(text)
FencesOf(text) == FindFences(CleanedOf(text), 1)
SpanOf(text) == LastSpan(CleanedOf(text))
Loaded(t) == [ok |-> TRUE, val |-> NoWs(t)]

\* the order of the claim: the whole text, then the fenced blocks from the last
\* found to the first found, and only then the last top-level bracket span
ClaimedExtract(text) ==
    IF LoadsList(text) THEN Loaded(text)
    ELSE IF \E i \in 1..Len(FencesOf(text)) : LoadsList(FencesOf(text)[i])
    THEN LET i == CHOOSE n \in 1..Len(FencesOf(text)) :
                     /\ LoadsList(FencesOf(text)[n])
                     /\ \A m \in (n + 1)..Len(FencesOf(text)) : ~LoadsList(FencesOf(text)[m])
         IN Loaded(FencesOf(text)[i])
    ELSE IF SpanOf(text) # <<>> /\ LoadsList(SpanOf(text)) THEN Loaded(SpanOf(text))
    ELSE [ok |-> FALSE, val |-> <<>>]

\* C9: _extract_json_array returns the first that parses of (1) the whole
\* text, (2) the fenced blocks of the cleaned text from last to first, (3) as
\* a last resort the last complete top-level [...] span.
C9_ClaimedPriorityOrder ==
    (r_pc \in {"extracted", "responded"} /\ content # <<>>) =>
        extracted = ClaimedExtract(content)

\* none of the whole text, the fenced blocks and the last bracket span parses
NothingParses(text) ==
    /\ ~LoadsList(text)
    /\ \A i \in 1..Len(FencesOf(text)) : ~LoadsList(FencesOf(text)[i])
    /\ ~(SpanOf(text) # <<>> /\ LoadsList(SpanOf(text)))

\* C10: when no candidate parses as a JSON array, _extract_json_array raises
\* and the rerank request ends with HTTP 502 and no result list.
C10_NoArrayRaisesAnd502 ==
    (r_pc # "replied" /\ NothingParses(content)) =>
        /\ ~extracted.ok
        /\ r_pc = "responded"
        /\ r_status = 502
        /\ r_results = <<>>

\* C10 witness: a reply of pure prose was answered with 502.
C10_Witness ==
    /\ r_pc = "responded"
    /\ content = <<"x", "x">>
    /\ r_status = 502
    /\ ~extracted.ok


\* the position of the opening fence when text is free text without a fence
\* followed by one fenced block that closes the text, 0 otherwise
FenceStart(text) ==
    IF Len(text) >= 3 /\ text[Len(text)] = "F" /\ Find(text, "F", 1) \in 2..(Len(text) - 1)
       /\ Find(text, "F", Find(text, "F", 1) + 1) = Len(text)
    THEN Find(text, "F", 1) ELSE 0

\* the content of that fenced block, after the optional json tag
FencedBody(text) ==
    LET p == FenceStart(text)
    IN SubSeq(text, IF Tok(text, p + 1) = "j" THEN p + 2 ELSE p + 1, Len(text) - 1)

\* a valid JSON array of rerank items, possibly padded with white space
IsItemArray(t) ==
    /\ LoadsList(t)
    /\ \A i \in 1..Len(Elems(NoWs(t))) : ItemOk(Elems(NoWs(t))[i])

ProseThenFencedItems(text) ==
    FenceStart(text) # 0 /\ IsItemArray(FencedBody(text))

\* C11: for a reply made of free text followed by a fenced block (optionally
\* tagged json) that holds a valid JSON array of rerank items,
\* _extract_json_array returns exactly that array and the endpoint answers
\* 200 with one result per item, carrying the item's index, in order.
C11_FencedArrayAfterProse ==
    (r_pc # "replied" /\ ProseThenFencedItems(content)) =>
        /\ extracted = Loaded(FencedBody(content))
        /\ r_pc = "responded" =>
              /\ r_status = 200
              /\ r_results = [i \in 1..Len(Elems(extracted.val)) |->
                                 ItemIndex(Elems(NoWs(FencedBody(content)))[i])]

\* C11 witness: free text holding an unclosed bracket, then a json-tagged
\* fenced block with the item of index 1, answered with that one result.
C11_Witness ==
    /\ r_pc = "responded"
    /\ content = <<"x", "[", "F", "j", "s", "[", "b", "]", "s", "F">>
    /\ r_status = 200
    /\ r_results = <<1>>


(***************************************************************************)
(* Properties of the rerank handler (checked under SpecRerankRequest)      *)
(***************************************************************************)
CalledChat == \E i \in 1..Len(r_calls) : r_calls[i] = "chat"
CalledEmbeddings == \E i \in 1..Len(r_calls) : r_calls[i] = "embeddings"
ParsedItems == Elems(extracted.val)
\* an item of the parsed array with index, score and document, both numeric
WellFormed(it) == it = <<"a">> \/ it = <<"b">>

\* C12: on the prompt path, when some item of the parsed array lacks index,
\* score or document, or cannot be coerced, the request ends with HTTP 502
\* and no result at all, the well formed items before it included.
C12_MalformedItemFailsAll ==
    (r_pc = "responded" /\ CalledChat /\ extracted.ok
       /\ \E i \in 1..Len(ParsedItems) : ~WellFormed(ParsedItems[i])) =>
        /\ r_status = 502
        /\ r_results = <<>>

\* C12 witness: the reply [a, m], a well formed item followed by one
\* without score, was answered with 502 and no result.
C12_Witness ==
    /\ r_pc = "responded"
    /\ content = <<"[", "a", ",", "m", "]">>
    /\ extracted.ok
    /\ r_status = 502
    /\ r_results = <<>>

\* C13: on the prompt path top_n takes no part in building the results: a
\* 200 response carries one result per item of the parsed array, in the
\* array's order, also when the array is longer than top_n.
C13_PromptPathNotCutToTopN ==
    (r_pc = "responded" /\ CalledChat /\ r_status = 200) =>
        /\ Len(r_results) = Len(ParsedItems)
        /\ \A i \in 1..Len(ParsedItems) :
              r_results[i] = IF ParsedItems[i] = <<"a">> THEN 0 ELSE 1

\* C13 witness: top_n = 1 and a reply with three items, all three returned.
C13_Witness ==
    /\ r_pc = "responded"
    /\ CalledChat
    /\ req.top_n = 1
    /\ r_status = 200
    /\ r_results = <<0, 1, 0>>


(***************************************************************************)
(* Properties of gateway_reranker (checked under SpecGateway)              *)
(***************************************************************************)
\* the results whose index names an input item, in the reranker's order
InRangeResults ==
    SelectSeq(resp_results,
              LAMBDA r : r.index >= 0 /\ r.index <= Len(payload.items) - 1)
\* the list the claim describes: per in-range result the item it names, with
\* the result's score in place of the item's
ClaimedOrdered ==
    [i \in 1..Len(InRangeResults) |->
        [id |-> payload.items[InRangeResults[i].index + 1].id,
         score |-> InRangeResults[i].score,
         obj |-> TRUE]]
\* every item a result names is a JSON object
NamedItemsAreObjects ==
    \A i \in 1..Len(InRangeResults) :
        payload.items[InRangeResults[i].index + 1].obj

\* C14: once _rerank has returned (the items being JSON objects),
\* gateway_reranker does not raise on results whose index is negative or not
\* below len(items): it answers 200 with exactly the in-range results in
\* the reranker's order, each a copy of the item at that index with the
\* result's score; the input items stay as they were.
C14_OutOfRangeSkipped ==
    (g_pc = "responded" /\ g_rerank = "returned" /\ NamedItemsAreObjects) =>
        /\ g_status = 200
        /\ ordered = ClaimedOrdered
        /\ \A i \in 1..Len(payload.items) : payload.items[i].score = 1

\* C14 witness: three results, one with a negative index, one with an index
\* equal to len(items) and one naming the second item; only the last is
\* returned, as the second item with the result's score.
C14_Witness ==
    /\ g_pc = "responded"
    /\ g_status = 200
    /\ Len(payload.items) = 2
    /\ \E i \in 1..Len(resp_results) : resp_results[i].index = -1
    /\ \E i \in 1..Len(resp_results) : resp_results[i].index = 2
    /\ Len(ordered) = 1
    /\ ordered[1].id = 2
    /\ ordered[1].score = 8


\* C15: a rerank request with an empty documents list, or with an empty or
\* blank query, is answered with HTTP 400 before any collaborator is
\* contacted: no credential lookup, no embeddings call, no chat call and no
\* MMR pass happens for it.
C15_InvalidRejectedBeforeCalls ==
    (req.documents = 0 \/ req.query = "" \/ req.query = " ") =>
        /\ r_calls = <<>>
        /\ emb_reply = "none"
        /\ m_pc = "idle"
        /\ r_pc \in {"start", "responded"}
        /\ r_pc = "responded" => (r_status = 400 /\ r_results = <<>>)

\* C15 witness: a request with a query and no documents was answered with
\* 400 and no call was issued.
C15_Witness ==
    /\ r_pc = "responded"
    /\ req.query = "q"
    /\ req.documents = 0
    /\ r_status = 400
    /\ r_calls = <<>>


(***************************************************************************)
(* Properties of the search handler (checked under SpecSearch)             *)
(***************************************************************************)
\* the position of the first entry e of s_log, 0 when there is none
LogPos(e) ==
    IF \E i \in 1..Len(s_log) : s_log[i] = e
    THEN CHOOSE i \in 1..Len(s_log) :
            s_log[i] = e /\ \A j \in 1..(i - 1) : s_log[j] # e
    ELSE 0
Logged(e) == LogPos(e) # 0
\* the merge has begun: gather has returned, or the merge left something
MergeBegun ==
    \/ Logged("gathered")
    \/ s_pc \in {"merging", "merged", "reranked", "answered", "returned"}
    \/ merge_i > 0 \/ merged # <<>> \/ items # <<>>

\* C16: the keyword query and the vector query are both started before the
\* handler awaits either, and the merge begins only after both have
\* completed successfully, whichever finishes first (a join).
C16_BothStartedThenJoined ==
    /\ (kw_task.st = "none") = (vec_task.st = "none")
    /\ Logged("gather") =>
          /\ Logged("kw_query") /\ LogPos("kw_query") < LogPos("gather")
          /\ Logged("vec_query") /\ LogPos("vec_query") < LogPos("gather")
    /\ MergeBegun =>
          /\ kw_task.st = "done"
          /\ vec_task.st = "done"
          /\ Logged("gather") /\ LogPos("gather") < LogPos("gathered")

\* C16 witness: the vector query finished first, the keyword query second,
\* and the merge is running on the rows of both.
C16_Witness ==
    /\ s_pc = "merging"
    /\ done_order = <<"vec", "kw">>
    /\ merge_i > 0
    /\ kw_items # <<>>
    /\ vec_items # <<>>

\* C17: when the keyword query or the vector query fails, the search fails
\* as a whole: nothing is merged, neither the rerank nor the answer
\* collaborator is called, and no SearchResponse is returned.
C17_QueryFailureFailsSearch ==
    (kw_task.st = "failed" \/ vec_task.st = "failed") =>
        /\ s_pc \in {"querying", "failed"}
        /\ ~Logged("gathered")
        /\ merge_i = 0 /\ merged = <<>> /\ items = <<>>
        /\ ~Logged("rerank")
        /\ ~Logged("chat")
        /\ reranked_items = <<>>
        /\ answer = "none"
        /\ response # "ok"

\* C17 witness: the keyword query gave rows, the vector query failed, and
\* the request ended with HTTP 500.
C17_Witness ==
    /\ s_pc = "failed"
    /\ kw_task.st = "done"
    /\ kw_task.rows # <<>>
    /\ vec_task.st = "failed"
    /\ response = "http500"
    /\ s_log = <<"embed", "kw_query", "vec_query", "gather">>

\* C18: the search never answers from the unranked merged order: when the
\* rerank collaborator delivers no reranked list (transport error, error
\* status, or a body without the list) the request fails, and the answer
\* collaborator is not called with the merged candidates.
C18_NoAnswerFromUnranked ==
    rerank_reply \in {"missing", "error"} =>
        /\ s_pc = "failed"
        /\ response = "http500"
        /\ ~Logged("chat")
        /\ answer = "none"

\* C19: a successful search returns at most top_k items, as context of the
\* answer and as SearchResponse.items, however many rows the two queries
\* matched.
C19_AtMostTopK ==
    (Logged("chat") \/ response = "ok") => Len(reranked_items) <= top_k


(***************************************************************************)
(* The branch of the rerank handler (checked under SpecRerankRequest)      *)
(***************************************************************************)
\* the embeddings upstream left some input without a usable vector
VectorsMissing == emb_reply \in {"short", "bad_format"}
\* the request names the provider LMStudio, in any letter case
AsksLMStudio == req.provider = "LMStudio" \/ req.provider = "lmstudio"

SearchEnded == s_pc \in {"returned", "failed"}

\* C21: when a search call returns to its caller, by success or by failure,
\* neither of the two query tasks it created is still running.
C21_NoTaskOutlivesCall ==
    SearchEnded => (kw_task.st # "pending" /\ vec_task.st # "pending")


\* how often the call e was issued
Issued(e) == Cardinality({i \in 1..Len(s_log) : s_log[i] = e})
CollaboratorCalls == {"embed", "kw_query", "vec_query", "rerank", "chat"}
\* the whole log of a request that went through
FullLog == <<"embed", "kw_query", "vec_query", "gather", "gathered",
             "rerank", "chat", "close">>
\* the logs of a failed request: they end with the call that failed (for
\* the two queries, with the await of both)
FailedLogs == {SubSeq(FullLog, 1, n) : n \in {1, 4, 6, 7}}

\* C22: within one search request each collaborator call (query embedding,
\* keyword query, vector query, rerank, answer generation) is issued at most
\* once and in this order; once a call has failed no further call is issued
\* and the request ends with HTTP 500, never with a SearchResponse.
C22_CallsOnceAndStopAtFailure ==
    /\ \A e \in CollaboratorCalls : Issued(e) <= 1
    /\ \E n \in 0..Len(FullLog) : s_log = SubSeq(FullLog, 1, n)
    /\ (kw_task.st = "failed" \/ vec_task.st = "failed") =>
          (Issued("rerank") = 0 /\ Issued("chat") = 0)
    /\ rerank_reply = "error" => Issued("chat") = 0
    /\ s_pc = "failed" => (s_log \in FailedLogs /\ response = "http500")
    /\ response = "ok" =>
          /\ s_log = FullLog
          /\ kw_task.st = "done" /\ vec_task.st = "done"
          /\ rerank_reply \in {"list", "missing"}

\* C22 witness: the rerank call failed after merged candidates were sent;
\* the log ends with it and the request ended with HTTP 500.
C22_Witness ==
    /\ s_pc = "failed"
    /\ rerank_reply = "error"
    /\ items # <<>>
    /\ s_log = <<"embed", "kw_query", "vec_query", "gather", "gathered", "rerank">>
    /\ response = "http500"


\* C29: every search request closes the LLMsGatewayClient it created before
\* it ends, on the success path and on every failure path.
C29_ClientClosedOnEveryPath ==
    SearchEnded => ~client_open


(***************************************************************************)
(* C23: both cosine functions return 0.0, without raising and without      *)
(* dividing by zero, whenever either vector is empty, the lengths differ   *)
(* or either vector has zero norm; a length mismatch is never an error.    *)
(***************************************************************************)
ZeroVector(v) == \A i \in 1..Len(v) : v[i] = 0
Degenerate(a, b) ==
    \/ Len(a) = 0
    \/ Len(b) = 0
    \/ Len(a) # Len(b)
    \/ ZeroVector(a)
    \/ ZeroVector(b)

C23_DegenerateCosineIsZero ==
    /\ c_sim.raised = FALSE
    /\ c_similarity.raised = FALSE
    /\ Degenerate(c_a, c_b) =>
        /\ "_cosine_sim" \in c_called => c_sim = Returned(0)
        /\ "_cosine_similarity" \in c_called => c_similarity = Returned(0)

\* both called on vectors of equal length where one has zero norm
C23_Witness ==
    /\ c_called = {"_cosine_sim", "_cosine_similarity"}
    /\ c_a = <<0, 0>>
    /\ c_b = <<4, 3>>
    /\ c_sim = Returned(0)
    /\ c_similarity = Returned(0)

(***************************************************************************)
(* C24: verify_token on a request without a token and without an           *)
(* Authorization header raises AuthenticationError MISSING_TOKEN; with a   *)
(* header that does not start with "Bearer " it raises AuthenticationError *)
(* INVALID_AUTH_HEADER; either is HTTP 401 at /auth/verify.                *)
(***************************************************************************)
NoCredentials == request_token = NoToken /\ authorization = NoHeader
NotBearer ==
    /\ request_token = NoToken
    /\ authorization # NoHeader
    /\ authorization[1] # "Bearer "

C24_MissingOrMalformedHeaderRaises ==
    a_pc = "returned" =>
        /\ NoCredentials =>
            /\ a_result = AuthenticationError("MISSING_TOKEN")
            /\ HttpStatus(a_result) = 401
        /\ NotBearer =>
            /\ a_result = AuthenticationError("INVALID_AUTH_HEADER")
            /\ HttpStatus(a_result) = 401

\* what the code does in those two cases: an ordinary reply, valid = False
C24_ReturnsInvalidInstead ==
    (a_pc = "returned" /\ (NoCredentials \/ NotBearer)) =>
        /\ a_result = VerifyResponse(FALSE, NoUser)
        /\ HttpStatus(a_result) = 200

(***************************************************************************)
(* C25: with Redis available, the requests of one client to one path that  *)
(* RateLimitMiddleware lets through within any window of Window seconds    *)
(* never exceed the configured limit, also when several requests arrive    *)
(* within the same second.                                                 *)
(***************************************************************************)
PassedWithin(t) ==
    SumSeq([i \in 1..Window |->
        IF t - i + 1 \in Times THEN passed_at[t - i + 1] ELSE 0])

C25_WindowNeverOverLimit ==
    ~rl_failed => \A t \in Times : PassedWithin(t) <= LimitRequests

(***************************************************************************)
(* C28: the limiters fail open: when the Redis client cannot be obtained,  *)
(* or an operation of _check_rate_limit or _check_global_limit raises, the *)
(* request goes to the next handler and is not answered 429.               *)
(***************************************************************************)
C28_LimitersFailOpen ==
    rl_last.failure # "none" => rl_last.status = 200

\* the limit was reached, the removal of line 167 raised, the request passed
C28_Witness ==
    /\ rl_last = [mw |-> "RateLimit", failure |-> "zrem", status |-> 200]
    /\ Cardinality(zsets["RateLimit"]) >= LimitRequests

(***************************************************************************)
(* C26: the scores of the results of _mmr_rank are non-increasing in       *)
(* selection order for every input, documents with negative cosine         *)
(* similarity to a selected document included.                             *)
(***************************************************************************)
C26_ScoresNonIncreasing ==
    \A j \in 1..(Len(results) - 1) : results[j + 1].score <= results[j].score

\* C26 as it holds: the scores are non-increasing from the second result on,
\* and the second exceeds the first only when the second document has
\* negative cosine similarity to the first (the first is scored without a
\* diversity term, line 73).
SimOfResults(i, j) ==
    cosine_sim(doc_vecs[results[i].index + 1], doc_vecs[results[j].index + 1])

C26_NonIncreasingAfterFirst ==
    \A j \in 1..(Len(results) - 1) :
        \/ results[j + 1].score <= results[j].score
        \/ j = 1 /\ SimOfResults(2, 1) < 0

\* three results: the second scored above the first, the third not above the
\* second
C26_Witness ==
    /\ m_pc = "returned"
    /\ Len(results) = 3
    /\ results[2].score > results[1].score
    /\ SimOfResults(2, 1) < 0
    /\ results[3].score <= results[2].score

(***************************************************************************)
(* C27: when the whole text is not itself a JSON array, the array that     *)
(* _extract_json_array returns is never one that stands inside a closed    *)
(* <think>...</think> block: such blocks are removed before the fenced     *)
(* blocks are searched and before the brackets are scanned, so a returned  *)
(* array is made of text outside the reasoning blocks.                     *)
(***************************************************************************)
\* position p lies in a closed reasoning block: between an opening tag and
\* the nearest closing tag after it, the tags included
InsideThink(t, p) ==
    \E s \in 1..p, e \in p..Len(t) :
        /\ t[s] = "T"
        /\ t[e] = "U"
        /\ s < e
        /\ \A q \in (s + 1)..(p - 1) : t[q] # "U"

OutsideThink(t) ==
    LET ps == ListOfSet({p \in 1..Len(t) : ~InsideThink(t, p)})
    IN [i \in 1..Len(ps) |-> t[ps[i]]]

\* v is, white space aside, a contiguous piece of t
PieceOf(v, t) ==
    \E i \in 1..Len(t), j \in 1..Len(t) : i <= j /\ v = NoWs(SubSeq(t, i, j))

C27_NoArrayFromThinkBlock ==
    (r_pc # "replied" /\ ~LoadsList(content) /\ extracted.ok) =>
        PieceOf(extracted.val, OutsideThink(content))

\* an array, then a reasoning block holding another array: the last bracket
\* span of the raw text is the one inside the block, the one returned is not
C27_Witness ==
    /\ content = <<"[", "b", "]", "T", "[", "a", "]", "U">>
    /\ r_pc = "responded"
    /\ extracted = [ok |-> TRUE, val |-> <<"[", "b", "]">>]

(***************************************************************************)
(* C30: after any sequence of committed todo-service operations every      *)
(* stored todo's attribute_id is null or the id of an existing attribute   *)
(* row, no attribute row is left that was attached to a deleted todo, and  *)
(* create_attributes_service on a todo that already has an attribute fails *)
(* with 400 and leaves todos and attributes unchanged.                     *)
(***************************************************************************)
ReferencesExist ==
    \A id \in DOMAIN todos :
        todos[id] = Null \/ todos[id] \in DOMAIN todo_attributes

\* every attribute row belongs to a stored todo
NoOrphanAttribute ==
    \A a \in DOMAIN todo_attributes : \E id \in DOMAIN todos : todos[id] = a

DeletedTodoTookItsAttribute ==
    (t_last.op = "delete_todo" /\ t_last.status = 204) =>
        /\ t_last.todo_id \notin DOMAIN todos
        /\ t_last.todos[t_last.todo_id] # Null =>
            t_last.todos[t_last.todo_id] \notin DOMAIN todo_attributes

\* 500 is the answer when a statement failed in the database; short of that
\* the call on a todo with an attribute is answered 400
SecondAttributeRefused ==
    (t_last.op = "create_attributes" /\ t_last.todo_id \in DOMAIN t_last.todos) =>
        IF t_last.todos[t_last.todo_id] # Null
        THEN /\ t_last.status # 500 => t_last.status = 400
             /\ todos = t_last.todos
             /\ todo_attributes = t_last.todo_attributes
        ELSE t_last.status # 400

C30_AttributeReferencesConsistent ==
    /\ ReferencesExist
    /\ NoOrphanAttribute
    /\ DeletedTodoTookItsAttribute
    /\ SecondAttributeRefused

\* a second attribute has just been refused for a todo whose attribute row
\* is the only one left, the other todo and its attribute having been deleted
C30_Witness ==
    /\ t_last.op = "create_attributes"
    /\ t_last.status = 400
    /\ Cardinality(DOMAIN todos) = 1
    /\ Cardinality(DOMAIN todo_attributes) = 1
    /\ \E id \in DOMAIN todos : todos[id] = MaxAttrs

\* a todo with an attribute has just been deleted while another todo keeps
\* its own attribute
C30_DeleteWitness ==
    /\ t_last.op = "delete_todo"
    /\ t_last.status = 204
    /\ t_last.todos[t_last.todo_id] # Null
    /\ Cardinality(DOMAIN t_last.todo_attributes) = 2
    /\ Cardinality(DOMAIN todo_attributes) = 1
    /\ Cardinality(DOMAIN todos) = 1

=============================================================================
